---- MODULE Spec2Model ----
(***************************************************************************)
(* Transaction / request pipeline of ext/webstorage/02_indexeddb.js.       *)
(*                                                                         *)
(* One IDBTransaction is modelled together with the IDBRequests enqueued   *)
(* on it.  Every `await` of the source is a suspension point; the code     *)
(* between two awaits is one atomic step.  Event dispatch is synchronous,  *)
(* so the calls an event handler makes are part of the step that           *)
(* dispatches the event.                                                   *)
(*                                                                         *)
(* Object wiring that the source leaves unfinished (brand checks of the    *)
(* webidl layer, the request -> transaction back reference read at         *)
(* request[_transaction]) is taken as the surrounding code uses it: a      *)
(* request belongs to the transaction of its source.  The algorithmic      *)
(* content (guards, statement order, list handling) is as written.         *)
(*                                                                         *)
(* `operation` is the closure handed to asynchronouslyExecuteRequest; its  *)
(* outcome (a value or a thrown error) is delivered at `await operation()`.*)
(* The backend abort call is taken to return; the backend commit call may  *)
(* throw, which backendCommitOk decides for the transaction.               *)
(***************************************************************************)
EXTENDS Integers, Sequences, FiniteSets, TLC

\* ---- bounds ----
MaxReq == 2            \* requests created on the transaction
MaxHandlerCalls == 1   \* API calls one event handler makes in one notification
MaxArrayLen == 1       \* elements of an array key
MaxInputLen == 3       \* elements of an array value handed to valueToMultiEntryKey
MaxGeneratorCalls == 3 \* records stored into the store with the key generator
MaxSeen == 6           \* records one cursor hands to its success handler
MaxVersion == 2        \* database versions
MaxOpenRequests == 4   \* open and delete requests made on the factory
MaxAdvance == 2        \* the count handed to advance

VARIABLES
  mode,          \* transaction[_mode]
  state,         \* transaction[_state]
  requestList,   \* transaction[_requestList]: sequence of request ids
  requests,      \* the IDBRequests, by id: done, result, error, deferred, operation in flight
  txError,       \* transaction[_error]
  backendCalls,  \* op_indexeddb_transaction_abort / _commit calls issued, in order
  events,        \* notifications dispatched, in order: <<type, request id or 0>>
  commitPc,      \* position of the async body of commitTransaction
  backendCommitOk, \* whether the backend accepts this transaction's commit call
  commitCause,   \* who called commitTransaction: "none", "explicit" or "auto"
  lastCall,      \* the most recent commit() / abort() call and what it observed
  notified,      \* the completion notification dispatched by the latest step, if any
  ka, kb, kc,    \* arguments of the key functions
  val,           \* the value handed to the conversions
  keyGenerator,  \* store.keyGenerator: current, and the calls made on it
  out            \* what the key function applied last returned

txVars == <<mode, state, requestList, requests, txError, backendCalls, events,
            commitPc, backendCommitOk, commitCause, lastCall, notified>>

keyVars == <<ka, kb, kc, val, keyGenerator, out>>

vars == <<mode, state, requestList, requests, txError, backendCalls, events,
          commitPc, backendCommitOk, commitCause, lastCall, notified,
          ka, kb, kc, val, keyGenerator, out>>

Modes == {"readonly", "readwrite"}
TransactionState == {"active", "inactive", "committing", "finished"}

\* What is kept of one completion notification (lines 495-539): the request,
\* whether it is the error event and whether a handler cancelled it, and the
\* transaction state before line 505/529, at dispatchEvent, when dispatchEvent
\* returns and after line 509-510/533-534; ended: a handler's commit() or
\* abort() was accepted during the dispatch.
NoNotification ==
  [req |-> 0, errored |-> FALSE, canceled |-> FALSE, pre |-> "none",
   atDispatch |-> "none", atReturn |-> "none", deact |-> "none",
   ended |-> FALSE]

\* The transaction and its requests as one value, so that nested calls compose.
Tx ==
  [mode |-> mode, state |-> state, requestList |-> requestList,
   requests |-> requests, txError |-> txError, backendCalls |-> backendCalls,
   events |-> events, commitPc |-> commitPc,
   backendCommitOk |-> backendCommitOk, commitCause |-> commitCause,
   lastCall |-> lastCall, notified |-> NoNotification, during |-> 0,
   status |-> "none", order |-> <<>>,
   upgradeTransaction |->
     IF out.op = "connection" THEN out.upgradeTransaction ELSE "null",
   ddl |-> <<>>]

InstallTx(t) ==
  /\ mode' = t.mode
  /\ state' = t.state
  /\ requestList' = t.requestList
  /\ requests' = t.requests
  /\ txError' = t.txError
  /\ backendCalls' = t.backendCalls
  /\ events' = t.events
  /\ commitPc' = t.commitPc
  /\ backendCommitOk' = t.backendCommitOk
  /\ commitCause' = t.commitCause
  /\ lastCall' = t.lastCall
  /\ notified' = t.notified

Install(t) ==
  /\ InstallTx(t)
  /\ UNCHANGED keyVars

\* class IDBRequest: [_processedDeferred] = new Deferred(), [_done] = false,
\* [_result] unset, [_error] = null.
\* opPending: the operation has not settled; inFlightAtAbort: the request
\* was in that condition when abort() was called; byHandler: the request
\* was created by a call made from an event handler; pushedIn: the state
\* of the transaction when the request was pushed on its list.
IDBRequest ==
  [done |-> FALSE, result |-> "unset", error |-> "null",
   processed |-> FALSE, opPending |-> FALSE, inFlightAtAbort |-> FALSE,
   byHandler |-> FALSE, pushedIn |-> "none"]

NoCall ==
  [op |-> "none", status |-> "none", pre |-> "none", post |-> "none",
   pushed |-> 0, backend |-> 0, inHandler |-> FALSE]

Range(s) == {s[i] : i \in 1..Len(s)}

\* ---- keys (lines 109-162, 207-282) ----
\* A key is {type, value}.  A number is its value, a date its time value;
\* a string is the sequence of its UTF-16 code units; a binary is the
\* sequence of the bytes of the Uint8Array that valueToKey copied; an array
\* is the sequence of its keys.
Key(type, value) == [type |-> type, value |-> value]

NoKey == Key("none", 0)

NoOut == [op |-> "none"]

\* The relational operator on two strings: the first code unit that differs
\* decides, and a proper prefix is the smaller one.
RECURSIVE StringLess(_, _)
StringLess(x, y) ==
  IF Len(y) = 0 THEN FALSE
  ELSE IF Len(x) = 0 THEN TRUE
  ELSE IF x[1] # y[1] THEN x[1] < y[1]
  ELSE StringLess(Tail(x), Tail(y))

\* Number.prototype.toString of a byte: its decimal digits, as code units.
ByteToString(b) ==
  LET d(n) == 48 + n
  IN IF b < 10 THEN <<d(b)>>
     ELSE IF b < 100 THEN <<d(b \div 10), d(b % 10)>>
     ELSE <<d(b \div 100), d((b \div 10) % 10), d(b % 10)>>

\* `<` on two Uint8Arrays compares their primitive values, which are
\* the strings TypedArray.prototype.join gives: the bytes in decimal,
\* separated by commas.
RECURSIVE TypedArrayToString(_)
TypedArrayToString(bytes) ==
  IF Len(bytes) = 0 THEN <<>>
  ELSE IF Len(bytes) = 1 THEN ByteToString(bytes[1])
  ELSE ByteToString(bytes[1]) \o <<44>> \o TypedArrayToString(Tail(bytes))

\* A variant of the type comparison in which a string outranks a binary.
CompareTypes_StringFirst(ta, tb) ==
  IF ta = "array" THEN 1
  ELSE IF tb = "array" THEN -1
  ELSE IF ta = "string" THEN 1
  ELSE IF tb = "string" THEN -1
  ELSE IF ta = "binary" THEN 1
  ELSE IF tb = "binary" THEN -1
  ELSE IF ta = "number" THEN 1
  ELSE IF tb = "number" THEN -1
  ELSE IF ta = "date" THEN 1
  ELSE -1

\* Lines 211-234: the keys are of different types.
CompareTypes(ta, tb) ==
  IF ta = "array" THEN 1
  ELSE IF tb = "array" THEN -1
  ELSE IF ta = "binary" THEN 1
  ELSE IF tb = "binary" THEN -1
  ELSE IF ta = "string" THEN 1
  ELSE IF tb = "string" THEN -1
  ELSE IF ta = "number" THEN 1
  ELSE IF tb = "number" THEN -1
  ELSE IF ta = "date" THEN 1
  ELSE -1

\* ---- compareTwoKeys (lines 207-282) ----
RECURSIVE compareTwoKeys(_, _)
RECURSIVE CompareArrays(_, _, _)
\* Lines 265-280: the loop over the common prefix, then the lengths.
CompareArrays(va, vb, i) ==
  LET len == IF Len(va) < Len(vb) THEN Len(va) ELSE Len(vb)
  IN IF i <= len
     THEN LET c == compareTwoKeys(va[i], vb[i])
          IN IF c # 0 THEN c ELSE CompareArrays(va, vb, i + 1)
     ELSE IF Len(va) > Len(vb) THEN 1
     ELSE IF Len(va) < Len(vb) THEN -1
     ELSE 0

compareTwoKeys(a, b) ==
  LET ta == a.type
      va == a.value
      tb == b.type
      vb == b.value
  IN IF ta # tb THEN CompareTypes(ta, tb)
     ELSE CASE ta \in {"number", "date"} ->
                 IF va > vb THEN 1 ELSE IF va < vb THEN -1 ELSE 0
            [] ta = "string" ->
                 IF StringLess(va, vb) THEN -1
                 ELSE IF StringLess(vb, va) THEN 1
                 ELSE 0
            [] ta = "binary" ->
                 IF StringLess(TypedArrayToString(va), TypedArrayToString(vb))
                 THEN -1
                 ELSE IF StringLess(TypedArrayToString(vb),
                                    TypedArrayToString(va))
                 THEN -1
                 ELSE 0
            [] ta = "array" -> CompareArrays(va, vb, 1)

\* `const { type, value } = b` (line 209) on a value that is not a key: a
\* number, a string, a Date, a typed array and an array have neither
\* property, so both names are bound to undefined.
Destructured(value) == [type |-> "undefined", value |-> "undefined"]

\* ---- values (lines 109-162) ----
\* A JavaScript value by what valueToKey asks of it: a number or NaN, a Date
\* with a time value or an invalid one, a string, a Uint8Array, an array
\* (an object with an identity, id, and its elements) or anything else.
Value(t, v) == [t |-> t, v |-> v]

ArrayValue(id, items) == [t |-> "Array", id |-> id, v |-> items]

NoValue == Value("none", 0)

null == Key("null", 0)

\* ---- valueToKey (lines 109-162) ----
\* `seen` is one Set shared by the whole recursion, so the result carries it.
RECURSIVE ValueToKeySeen(_, _)
RECURSIVE ArrayToKeys(_, _, _, _)
\* Lines 139-150: the loop over the entries.
ArrayToKeys(items, i, seen, keys) ==
  IF i > Len(items) THEN [key |-> Key("array", keys), seen |-> seen]
  ELSE LET r == ValueToKeySeen(items[i], seen)
       IN IF r.key.type = "null" THEN [key |-> null, seen |-> r.seen]
          ELSE ArrayToKeys(items, i + 1, r.seen, Append(keys, r.key))

ValueToKeySeen(input, seen) ==
  IF input.t = "Array" /\ input.id \in seen THEN [key |-> null, seen |-> seen]
  ELSE CASE input.t = "Number" -> [key |-> Key("number", input.v), seen |-> seen]
         [] input.t = "NaN" -> [key |-> null, seen |-> seen]
         [] input.t = "Date" -> [key |-> Key("date", input.v), seen |-> seen]
         [] input.t = "InvalidDate" -> [key |-> null, seen |-> seen]
         [] input.t = "String" -> [key |-> Key("string", input.v), seen |-> seen]
         [] input.t = "Array" ->
              ArrayToKeys(input.v, 1, seen \cup {input.id}, <<>>)
         [] input.t = "Uint8Array" ->
              [key |-> Key("binary", input.v), seen |-> seen]
         [] OTHER -> [key |-> null, seen |-> seen]

valueToKey(input) == ValueToKeySeen(input, {}).key

\* Line 173: keys.find((item) => compareTwoKeys(item, key)) === undefined.
\* find returns the first item for which the callback's result is truthy,
\* and of -1, 0, 1 only 0 is not.
NotYetPresent(keys, key) ==
  ~\E i \in 1..Len(keys) : compareTwoKeys(keys[i], key) # 0

\* ---- valueToMultiEntryKey (lines 165-185) ----
RECURSIVE MultiEntryKeys(_, _, _, _)
MultiEntryKeys(items, i, seen, keys) ==
  IF i > Len(items) THEN keys
  ELSE LET r == ValueToKeySeen(items[i], seen)
       IN MultiEntryKeys(items, i + 1, r.seen,
                         IF r.key.type # "null" /\ NotYetPresent(keys, r.key)
                         THEN Append(keys, r.key)
                         ELSE keys)

valueToMultiEntryKey(input) ==
  IF input.t = "Array"
  THEN Key("array", MultiEntryKeys(input.v, 1, {input.id}, <<>>))
  ELSE valueToKey(input)

\* ---- the values the conversions are applied to ----
InputElements ==
  {Value("Number", 1), Value("Number", 2), Value("NaN", 0),
   Value("String", <<97>>)}
InputArrays ==
  {ArrayValue(1, v) : v \in UNION {[1..n -> InputElements] : n \in 0..MaxInputLen}}
\* const b = [1]; [b, b], [b, [b]], and const a = []; a.push(a); [1, a].
\* Of an array met again while it is being converted only the identity is
\* read (line 110), so its entries are left out there.
SharedArrays ==
  LET b == ArrayValue(2, <<Value("Number", 1)>>)
  IN {ArrayValue(1, <<b, b>>),
      ArrayValue(1, <<b, ArrayValue(3, <<b>>)>>),
      ArrayValue(1, <<b, ArrayValue(3, <<Value("NaN", 0)>>)>>)}
CyclicArrays ==
  {ArrayValue(1, <<ArrayValue(1, <<>>)>>),
   ArrayValue(1, <<Value("Number", 1),
                   ArrayValue(2, <<ArrayValue(1, <<>>)>>)>>)}
InputValues ==
  InputArrays \cup InputElements \cup SharedArrays \cup CyclicArrays
    \cup {Value("Date", 0), Value("InvalidDate", 0), Value("Uint8Array", <<1, 2>>),
          Value("Object", 0), ArrayValue(1, <<ArrayValue(2, <<Value("Number", 1)>>)>>)}

\* ---- key ranges (lines 2301-2453) ----
createRange(lowerBound, upperBound, lowerOpen, upperOpen) ==
  [lower |-> lowerBound, upper |-> upperBound,
   lowerOpen |-> lowerOpen, upperOpen |-> upperOpen]

\* A variant of keyInRange that takes every bound as closed.
keyInRange_Closed(range, key) ==
  LET lower == \/ range.lower = null
               \/ compareTwoKeys(range.lower, key) = -1
               \/ compareTwoKeys(range.lower, key) = 0
      upper == \/ range.upper = null
               \/ compareTwoKeys(range.upper, key) = 1
               \/ compareTwoKeys(range.upper, key) = 0
  IN lower /\ upper

\* ---- keyInRange (lines 2321-2329) ----
keyInRange(range, key) ==
  LET lower == \/ range.lower = null
               \/ compareTwoKeys(range.lower, key) = -1
               \/ (compareTwoKeys(range.lower, key) = 0 /\ ~range.lowerOpen)
      upper == \/ range.upper = null
               \/ compareTwoKeys(range.upper, key) = 1
               \/ (compareTwoKeys(range.upper, key) = 0 /\ ~range.upperOpen)
  IN lower /\ upper

\* The constructors, for arguments that valueToKey converts to the given
\* keys (an argument it does not convert raises DataError before the range
\* is looked at).  Each returns what the caller gets: the range or the error.
\* ---- IDBKeyRange.only (lines 2366-2379) ----
IDBKeyRange_only(key) ==
  [status |-> "ok", range |-> createRange(key, key, FALSE, FALSE)]

\* ---- IDBKeyRange.lowerBound (lines 2382-2399) ----
IDBKeyRange_lowerBound(lowerKey, open) ==
  [status |-> "ok", range |-> createRange(lowerKey, null, open, TRUE)]

\* ---- IDBKeyRange.upperBound (lines 2402-2419) ----
IDBKeyRange_upperBound(upperKey, open) ==
  [status |-> "ok", range |-> createRange(null, upperKey, TRUE, open)]

\* ---- IDBKeyRange.bound (lines 2422-2453) ----
IDBKeyRange_bound(lowerKey, upperKey, lowerOpen, upperOpen) ==
  IF compareTwoKeys(lowerKey, upperKey) = 1
  THEN [status |-> "DataError", range |-> createRange(null, null, FALSE, FALSE)]
  ELSE [status |-> "ok",
        range |-> createRange(lowerKey, upperKey, lowerOpen, upperOpen)]

\* ---- the keys the functions are applied to ----
KeyNumbers == {Key("number", 0), Key("number", 1)}
KeyDates == {Key("date", 0), Key("date", 1)}
KeyStrings ==
  {Key("string", v) : v \in {<<>>, <<97>>, <<97, 98>>, <<98>>}}
KeyBinaries ==
  {Key("binary", v) : v \in {<<>>, <<1>>, <<2>>, <<10>>, <<1, 2>>}}
ScalarKeys == KeyNumbers \cup KeyDates \cup KeyStrings \cup KeyBinaries

ArrayElements ==
  {Key("number", 0), Key("number", 1), Key("binary", <<1>>),
   Key("binary", <<2>>)}
FlatArrays ==
  {Key("array", v) : v \in UNION {[1..n -> ArrayElements] : n \in 0..MaxArrayLen}}
NestedArrays == {Key("array", <<a>>) : a \in FlatArrays}
Keys == ScalarKeys \cup FlatArrays \cup NestedArrays

\* ---- numbers near 2^53 (lines 1127-1143) ----
\* The key generator works on IEEE doubles around 9007199254740992 = 2^53.
\* A number is hi * 2^53 + lo + half / 2 with hi in {0, 1}, a small lo and
\* half in {0, 1}; the doubles above 2^53 are 2 apart and there is no
\* half there.
Num(hi, lo, half) == [hi |-> hi, lo |-> lo, half |-> half]

NumLess(x, y) ==
  \/ x.hi < y.hi
  \/ x.hi = y.hi /\ 2 * x.lo + x.half < 2 * y.lo + y.half

\* 9007199254740992
Ceiling == Num(1, 0, 0)

MathMin(x, y) == IF NumLess(y, x) THEN y ELSE x

MathFloor(x) == [x EXCEPT !.half = 0]

\* x + 1 on an integral double: exact below 2^53; from 2^53 on the sum lies
\* half way between two doubles and is rounded to the one with the even
\* significand, so 2^53 + 1 is 2^53.
PlusOne(x) ==
  IF x.hi = 1 /\ x.lo >= 0
  THEN (IF (x.lo \div 2) % 2 = 1 THEN [x EXCEPT !.lo = @ + 2] ELSE x)
  ELSE [x EXCEPT !.lo = @ + 1]

\* ---- Store.keyGenerator (lines 1122-1149) ----
\* calls: the keys generated and the keys handed to possiblyUpdate, in order,
\* each with the value of current after the call.
NewKeyGenerator == [current |-> Num(0, 1, 0), calls |-> <<>>]

\* Lines 1129-1137: generateKey.
generateKey(g) ==
  IF NumLess(Ceiling, g.current)
  THEN [g EXCEPT !.calls = Append(@, [op |-> "ConstraintError",
                                      key |-> Key("none", 0),
                                      current |-> g.current])]
  ELSE LET c == PlusOne(g.current)
       IN [g EXCEPT !.current = c,
                    !.calls = Append(@, [op |-> "generateKey",
                                         key |-> Key("number", g.current),
                                         current |-> c])]

\* Lines 1139-1147: possiblyUpdate.
possiblyUpdate(g, key) ==
  LET value == MathFloor(MathMin(key.value, Ceiling))
      c == IF key.type = "number" /\ ~NumLess(value, g.current)
           THEN PlusOne(value)
           ELSE g.current
  IN [g EXCEPT !.current = c,
               !.calls = Append(@, [op |-> "possiblyUpdate", key |-> key,
                                    current |-> c])]

\* Lines 1153-1163: storeRecordIntoObjectStore on a store with a generator;
\* key is the key given to put/add, or NoKey when none was given.
storeRecordIntoObjectStore(g, key) ==
  IF key = NoKey THEN generateKey(g) ELSE possiblyUpdate(g, key)

\* The explicit keys given to put/add.
ExplicitKeys ==
  {Key("number", n) :
     n \in {Num(0, -1, 0), Num(0, 1, 0), Num(0, 1, 1), Num(0, 3, 0),
            Num(1, -2, 0), Num(1, -1, 0), Num(1, 0, 0), Num(1, 2, 0)}}
    \cup {Key("string", <<97>>)}

\* ---- abortTransaction (lines 366-400) ----
\* One observable step of the procedure, the backend call (line 367), an
\* error event (line 381) or the abort event (line 391), with the
\* transaction state at that point.
AbortStep(step, r, t) == [step |-> step, req |-> r, state |-> t.state]

RECURSIVE AbortRequests(_, _)
AbortRequests(t, i) ==
  IF i > Len(t.requestList) THEN t
  ELSE LET r == t.requestList[i]
           t1 == [t EXCEPT !.requests[r].processed = TRUE,
                           !.requests[r].done = TRUE,
                           !.requests[r].result = "undefined",
                           !.requests[r].error = "AbortError",
                           !.events = Append(@, <<"error", r>>),
                           !.order = Append(@, AbortStep("error", r, t))]
       IN AbortRequests(t1, i + 1)

\* A variant that sets the state after the loop over the requests.
abortTransaction_FinishedLast(t, error) ==
  LET t1 == [t EXCEPT !.backendCalls = Append(@, "abort"),
                      !.order = Append(@, AbortStep("backend", 0, t)),
                      !.txError = IF error # "null" THEN error ELSE @]
      t2 == AbortRequests(t1, 1)
      t3 == [t2 EXCEPT !.state = "finished"]
  IN [t3 EXCEPT !.upgradeTransaction =
                   IF t.mode = "versionchange" THEN "null" ELSE @,
                !.events = Append(@, <<"abort", 0>>),
                !.order = Append(@, AbortStep("abort", 0, t3))]

abortTransaction(t, error) ==
  LET t1 == [t EXCEPT !.backendCalls = Append(@, "abort"),
                      !.order = Append(@, AbortStep("backend", 0, t)),
                      !.state = "finished",
                      !.txError = IF error # "null" THEN error ELSE @]
      t2 == AbortRequests(t1, 1)
  IN [t2 EXCEPT !.upgradeTransaction =
                   IF t.mode = "versionchange" THEN "null" ELSE @,
                !.events = Append(@, <<"abort", 0>>),
                !.order = Append(@, AbortStep("abort", 0, t2))]

\* ---- commitTransaction (lines 545-566) ----
\* The part after the awaits: the backend call, then the state test.
CommitTail(t) ==
  LET t1 == [t EXCEPT !.backendCalls = Append(@, "commit")]
  IN IF ~t.backendCommitOk THEN [t1 EXCEPT !.commitPc = "rejected"]
     ELSE IF t1.state # "committing" THEN [t1 EXCEPT !.commitPc = "done"]
     ELSE [t1 EXCEPT !.upgradeTransaction =
                        IF t.mode = "versionchange" THEN "null" ELSE @,
                     !.state = "finished",
                     !.events = Append(@, <<"complete", 0>>),
                     !.commitPc = "done"]

\* With an empty request list the loop awaits nothing and the body runs
\* to its end inside the call.
commitTransaction(t) ==
  LET t1 == [t EXCEPT !.state = "committing"]
  IN IF Len(t1.requestList) = 0 THEN CommitTail(t1)
     ELSE [t1 EXCEPT !.commitPc = "waiting"]

\* ---- asynchronouslyExecuteRequest (lines 464-542) ----
\* Lines 465-478: create the request, push it, start the operation.
asynchronouslyExecuteRequest(t) ==
  LET r == Len(t.requests) + 1
  IN [t EXCEPT !.requests = Append(@, [IDBRequest EXCEPT
                                          !.opPending = TRUE,
                                          !.pushedIn = t.state,
                                          !.byHandler = (t.during # 0)]),
               !.requestList = Append(@, r)]

\* Lines 490-493: Array.prototype.slice returns a copy; the list is not changed.
RemoveFromList(list, r) == list

\* A variant of the test that does not look at the list.
QueueEmptyAlways(list) == Len(list) >= 0

\* Lines 515, 535: requestList.length === 0.
QueueEmpty(list) == Len(list) = 0

\* The record kept of a call of commit() or abort(): what it returned, the
\* state before and after it, how many requests it pushed and how many
\* backend transaction calls it issued, and whether an event handler made
\* it.  Of the other calls only the effect on the transaction is kept.
TracedOps == {"commit", "abort"}

\* status: what the call that returned last gave its caller.
Recorded(op, status, t, t2) ==
  IF op \notin TracedOps THEN [t2 EXCEPT !.status = status]
  ELSE
  [t2 EXCEPT !.status = status, !.lastCall =
     [op |-> op, status |-> status, pre |-> t.state, post |-> t2.state,
      pushed |-> Len(t2.requestList) - Len(t.requestList),
      backend |-> Len(t2.backendCalls) - Len(t.backendCalls),
      inHandler |-> (t.during # 0)]]

\* ---- IDBTransaction.commit (lines 2852-2858) ----
IDBTransaction_commit(t) ==
  IF t.state # "active" THEN Recorded("commit", "InvalidStateError", t, t)
  ELSE Recorded("commit", "ok", t,
                commitTransaction([t EXCEPT !.commitCause = "explicit"]))

\* Remember which requests are in flight at a call of abort().
MarkInFlight(t) ==
  [t EXCEPT !.requests =
     [r \in 1..Len(t.requests) |->
        [t.requests[r] EXCEPT !.inFlightAtAbort = t.requests[r].opPending]]]

\* A variant of abort() whose guard rejects a finished transaction only.
IDBTransaction_abort_FinishedOnly(t) ==
  IF t.state = "finished"
  THEN Recorded("abort", "InvalidStateError", t, t)
  ELSE Recorded("abort", "ok", t,
                abortTransaction([MarkInFlight(t) EXCEPT !.state = "inactive"],
                                 "null"))

\* ---- IDBTransaction.abort (lines 2861-2868) ----
IDBTransaction_abort(t) ==
  IF t.state = "committing" \/ t.state = "finished"
  THEN Recorded("abort", "InvalidStateError", t, t)
  ELSE Recorded("abort", "ok", t,
                abortTransaction([MarkInFlight(t) EXCEPT !.state = "inactive"],
                                 "null"))

\* A variant of get without the test of the transaction state.
IDBObjectStore_get_NoStateTest(t) ==
  Recorded("get", "ok", t, asynchronouslyExecuteRequest(t))

\* ---- IDBObjectStore.get (lines 1715-1732); getKey, getAll, count are alike ----
IDBObjectStore_get(t) ==
  IF t.state # "active" THEN Recorded("get", "TransactionInactiveError", t, t)
  ELSE Recorded("get", "ok", t, asynchronouslyExecuteRequest(t))

\* ---- IDBObjectStore.delete / clear (lines 1676-1712) ----
IDBObjectStore_delete(t) ==
  IF t.state # "active" THEN Recorded("delete", "TransactionInactiveError", t, t)
  ELSE IF t.mode = "readonly" THEN Recorded("delete", "ReadOnlyError", t, t)
  ELSE Recorded("delete", "ok", t, asynchronouslyExecuteRequest(t))

\* ---- clone (lines 350-359) ----
\* core.serialize runs while the transaction is inactive.  It may throw
\* (the value cannot be cloned), and it runs the getters of the value,
\* which are application code: of the calls a getter can make on an inactive
\* transaction only abort() is accepted.
CloneOutcomes == {"ok", "throws", "getterAborts"}

clone(t, outcome) ==
  LET t1 == [t EXCEPT !.state = "inactive"]
  IN CASE outcome = "throws" -> t1
       [] outcome = "getterAborts" ->
            [IDBTransaction_abort(t1) EXCEPT !.state = "active"]
       [] OTHER -> [t1 EXCEPT !.state = "active"]

\* ---- addOrPut (lines 1239-1296), for a value whose key is acceptable ----
addOrPut(t, outcome) ==
  IF t.state # "active" THEN Recorded("put", "TransactionInactiveError", t, t)
  ELSE IF t.mode # "readonly" THEN Recorded("put", "ReadOnlyError", t, t)
  ELSE LET t1 == clone(t, outcome)
       IN IF outcome = "throws" THEN Recorded("put", "DataCloneError", t, t1)
          ELSE Recorded("put", "ok", t, asynchronouslyExecuteRequest(t1))

\* ddl keeps the latest call of createObjectStore or deleteObjectStore as
\* its caller saw it: what it returned, connection[_upgradeTransaction] and
\* the transaction state at the call, and whether the transaction had
\* delivered complete or abort by then.
SchemaCall(op, status, t, t2) ==
  [Recorded(op, status, t, t2) EXCEPT !.ddl =
     <<[op |-> op, status |-> status, had |-> t.upgradeTransaction,
        state |-> t.state,
        ended |-> \E i \in 1..Len(t.events) :
                    t.events[i][1] \in {"complete", "abort"}]>>]

\* A variant of createObjectStore without the test for the upgrade
\* transaction being there.
IDBDatabase_createObjectStore_NoNullTest(t) ==
  IF t.state # "active"
  THEN SchemaCall("createObjectStore", "TransactionInactiveError", t, t)
  ELSE SchemaCall("createObjectStore", "ok", t, t)

\* ---- IDBDatabase.createObjectStore (lines 1015-1073), valid options ----
\* The stores of the database are the backend's; the transaction is not
\* changed by the call.
IDBDatabase_createObjectStore(t) ==
  IF t.upgradeTransaction = "null"
  THEN SchemaCall("createObjectStore", "InvalidStateError", t, t)
  ELSE IF t.state # "active"
  THEN SchemaCall("createObjectStore", "TransactionInactiveError", t, t)
  ELSE SchemaCall("createObjectStore", "ok", t, t)

\* ---- IDBDatabase.deleteObjectStore (lines 1076-1100), for the name of
\* a store of the database ----
IDBDatabase_deleteObjectStore(t) ==
  IF t.upgradeTransaction = "null"
  THEN SchemaCall("deleteObjectStore", "InvalidStateError", t, t)
  ELSE IF t.state # "active"
  THEN SchemaCall("deleteObjectStore", "TransactionInactiveError", t, t)
  ELSE SchemaCall("deleteObjectStore", "ok", t, t)

\* ---- application code running inside an event handler ----
ApiCalls ==
  {<<"get">>, <<"delete">>, <<"abort">>, <<"commit">>}
    \cup {<<"put", o>> : o \in CloneOutcomes}

\* The calls that create a request.
RequestCalls ==
  {<<"get">>, <<"delete">>} \cup {<<"put", o>> : o \in CloneOutcomes}

ApplyCall(t, c) ==
  CASE c[1] = "get" -> IDBObjectStore_get(t)
    [] c[1] = "delete" -> IDBObjectStore_delete(t)
    [] c[1] = "abort" -> IDBTransaction_abort(t)
    [] c[1] = "commit" -> IDBTransaction_commit(t)
    [] c[1] = "put" -> addOrPut(t, c[2])
    [] c[1] = "createObjectStore" -> IDBDatabase_createObjectStore(t)
    [] c[1] = "deleteObjectStore" -> IDBDatabase_deleteObjectStore(t)

Scripts == UNION {[1..n -> ApiCalls] : n \in 0..MaxHandlerCalls}

RECURSIVE RunScript(_, _, _)
RunScript(t, script, i) ==
  IF i > Len(script) THEN t
  ELSE RunScript(ApplyCall(t, script[i]), script, i + 1)

\* Lines 505-507 and 529-531.
Activate(t) ==
  IF t.state = "inactive" THEN [t EXCEPT !.state = "active"] ELSE t

\* Lines 509-510 and 533-534.
Deactivate(t) ==
  IF t.state = "active" THEN [t EXCEPT !.state = "inactive"] ELSE t

\* Lines 505-508 and 529-532: activate, dispatch the event to the handler.
Notify(t, r, type, script) ==
  LET t1 == Activate(t)
      t2 == [t1 EXCEPT !.events = Append(@, <<type, r>>), !.during = r]
  IN [RunScript(t2, script, 1) EXCEPT !.during = 0]

\* Lines 509-518 and 533-538: deactivate, abort on an unhandled error,
\* commit when the list is empty.
AfterNotify(t, r, errored, prevent) ==
  IF t.state # "active" THEN t
  ELSE LET t1 == Deactivate(t)
       IN IF errored /\ ~prevent
          THEN abortTransaction(t1, t1.requests[r].error)
          ELSE IF QueueEmpty(t1.requestList)
          THEN commitTransaction([t1 EXCEPT !.commitCause = "auto"])
          ELSE t1

\* Lines 489-497 and 520-521: resolve the deferred, (not) remove the request
\* from the list, set done, result and error.
MarkProcessed(t, r, errored) ==
  LET t1 == [t EXCEPT !.requests[r].processed = TRUE,
                      !.requestList = RemoveFromList(@, r),
                      !.requests[r].done = TRUE]
  IN IF errored
     THEN [t1 EXCEPT !.requests[r].result = "undefined",
                     !.requests[r].error = "OpError"]
     ELSE [t1 EXCEPT !.requests[r].result = "value",
                     !.requests[r].error = "undefined"]

\* A variant without the test of the committing state in the catch block.
Settle_NoCommittingCase(t0, r, outcome, script, prevent) ==
  LET t == [t0 EXCEPT !.requests[r].opPending = FALSE]
      errored == (outcome = "throws")
      t2 == MarkProcessed(t, r, errored)
      t3 == Notify(t2, r, IF errored THEN "error" ELSE "success", script)
  IN AfterNotify(t3, r, errored, prevent)

\* Lines 477-540: the continuation of the async body after `await operation()`.
Settle(t0, r, outcome, script, prevent) ==
  LET t == [t0 EXCEPT !.requests[r].opPending = FALSE]
  IN IF outcome = "throws" /\ t.state = "committing"
     THEN abortTransaction(t, "OpError")
     ELSE
       LET errored == (outcome = "throws")
           t2 == MarkProcessed(t, r, errored)
           t3 == Notify(t2, r, IF errored THEN "error" ELSE "success", script)
       IN AfterNotify(t3, r, errored, prevent)

\* What the notification of that step looks like from outside.
Observed(t0, r, outcome, script, prevent) ==
  IF outcome = "throws" /\ t0.state = "committing" THEN NoNotification
  ELSE
    LET errored == (outcome = "throws")
        t2 == MarkProcessed(t0, r, errored)
        t3 == Notify(t2, r, IF errored THEN "error" ELSE "success", script)
    IN [req |-> r, errored |-> errored, canceled |-> prevent,
        pre |-> t2.state, atDispatch |-> Activate(t2).state,
        atReturn |-> t3.state, deact |-> Deactivate(t3).state,
        ended |-> (t3.backendCalls # t2.backendCalls
                     \/ t3.commitPc # t2.commitPc)]

\* ---- the state machine ----
Init ==
  /\ mode \in Modes
  /\ state = "active"
  /\ requestList = <<>>
  /\ requests = <<>>
  /\ txError = "unset"
  /\ backendCalls = <<>>
  /\ events = <<>>
  /\ commitPc = "idle"
  /\ backendCommitOk \in BOOLEAN
  /\ commitCause = "none"
  /\ lastCall = NoCall
  /\ notified = NoNotification
  /\ ka = NoKey /\ kb = NoKey /\ kc = NoKey
  /\ val = NoValue
  /\ keyGenerator = NewKeyGenerator
  /\ out = NoOut

Bounded(t) == Len(t.requests) <= MaxReq

\* Application calls made outside the handlers of this transaction's requests.
Get ==
  LET t == IDBObjectStore_get(Tx) IN Bounded(t) /\ Install(t)

Delete ==
  LET t == IDBObjectStore_delete(Tx) IN Bounded(t) /\ Install(t)

Put ==
  \E o \in CloneOutcomes :
    LET t == addOrPut(Tx, o) IN Bounded(t) /\ Install(t)

Commit ==
  Install(IDBTransaction_commit(Tx))

Abort ==
  Install(IDBTransaction_abort(Tx))

\* The operation's outcome, and for an error whether a handler cancelled
\* the event (event[_canceledFlag]).
Outcomes == {<<"value", FALSE>>, <<"throws", FALSE>>, <<"throws", TRUE>>}

\* A request's operation settles and its continuation runs.
Complete ==
  \E r \in 1..Len(requests), o \in Outcomes, script \in Scripts :
    /\ requests[r].opPending
    /\ LET t == Settle(Tx, r, o[1], script, o[2])
       IN Bounded(t) /\ Install(t)

\* The same step, keeping what it did in `notified`.
CompleteNotified ==
  \E r \in 1..Len(requests), o \in Outcomes, script \in Scripts :
    /\ requests[r].opPending
    /\ LET t == Settle(Tx, r, o[1], script, o[2])
       IN /\ Bounded(t)
          /\ Install([t EXCEPT !.notified =
                                  Observed(Tx, r, o[1], script, o[2])])

\* A variant of the loop that awaits the first listed request only.
AwaitedFirstOnly(list, reqs) ==
  Len(list) = 0 \/ reqs[list[1]].processed

\* Lines 548-550: the loop has awaited the deferred of every listed request.
AwaitedAll(list, reqs) ==
  \A i \in 1..Len(list) : reqs[list[i]].processed

\* The async body of commitTransaction resumes once every awaited
\* request[_processedDeferred] has resolved (lines 548-565).
CommitContinue ==
  /\ commitPc = "waiting"
  /\ AwaitedAll(requestList, requests)
  /\ Install(CommitTail(Tx))

Next ==
  \/ Get
  \/ Delete
  \/ Put
  \/ Commit
  \/ Abort
  \/ Complete
  \/ CommitContinue

Spec == Init /\ [][Next]_vars

\* The same machine with the latest notification observable.
NextNotified ==
  \/ Get
  \/ Delete
  \/ Put
  \/ Commit
  \/ Abort
  \/ CompleteNotified
  \/ CommitContinue

SpecNotified == Init /\ [][NextNotified]_vars

\* The same machine with the steps of the latest abort procedure observable.
Traced(t) ==
  /\ InstallTx(t)
  /\ out' = IF t.order # <<>>
            THEN [op |-> "abortTransaction", order |-> t.order]
            ELSE out
  /\ UNCHANGED <<ka, kb, kc, val, keyGenerator>>

AbortTraced ==
  LET t == IDBTransaction_abort(Tx) IN Traced(t)

CompleteTraced ==
  \E r \in 1..Len(requests), o \in Outcomes, script \in Scripts :
    /\ requests[r].opPending
    /\ LET t == Settle(Tx, r, o[1], script, o[2])
       IN Bounded(t) /\ Traced(t)

NextAbortOrder ==
  \/ Get
  \/ Delete
  \/ Put
  \/ Commit
  \/ AbortTraced
  \/ CompleteTraced
  \/ CommitContinue

SpecAbortOrder == Init /\ [][NextAbortOrder]_vars

\* ---- the key functions applied to drawn arguments ----
InitKeys ==
  /\ mode = "readonly"
  /\ state = "active"
  /\ requestList = <<>>
  /\ requests = <<>>
  /\ txError = "unset"
  /\ backendCalls = <<>>
  /\ events = <<>>
  /\ commitPc = "idle"
  /\ backendCommitOk = TRUE
  /\ commitCause = "none"
  /\ lastCall = NoCall
  /\ notified = NoNotification
  /\ ka \in Keys /\ kb \in Keys /\ kc \in Keys
  /\ val = NoValue
  /\ keyGenerator = NewKeyGenerator
  /\ out = NoOut

\* IDBFactory.cmp and every caller of compareTwoKeys: the three keys are
\* compared with each other.
Compare ==
  /\ out = NoOut
  /\ out' = [op |-> "compare",
             aa |-> compareTwoKeys(ka, ka),
             ab |-> compareTwoKeys(ka, kb),
             ba |-> compareTwoKeys(kb, ka),
             bc |-> compareTwoKeys(kb, kc),
             ac |-> compareTwoKeys(ka, kc)]
  /\ UNCHANGED <<txVars, ka, kb, kc, val, keyGenerator>>

\* A range is made by one of the constructors from ka and kb, and kc is
\* tested against it and against the range with a bound taken away.
Constructed(ctor, lowerOpen, upperOpen) ==
  CASE ctor = "only" -> IDBKeyRange_only(ka)
    [] ctor = "lowerBound" -> IDBKeyRange_lowerBound(ka, lowerOpen)
    [] ctor = "upperBound" -> IDBKeyRange_upperBound(kb, upperOpen)
    [] ctor = "bound" -> IDBKeyRange_bound(ka, kb, lowerOpen, upperOpen)

MakeRange ==
  /\ out = NoOut
  /\ \E ctor \in {"only", "lowerBound", "upperBound", "bound"},
        lowerOpen, upperOpen \in BOOLEAN :
       /\ ctor = "only" => (~lowerOpen /\ ~upperOpen)
       /\ ctor = "lowerBound" => ~upperOpen
       /\ ctor = "upperBound" => ~lowerOpen
       /\ LET made == Constructed(ctor, lowerOpen, upperOpen)
              r == made.range
          IN out' = [op |-> "range", ctor |-> ctor, lowerOpen |-> lowerOpen,
                     upperOpen |-> upperOpen, status |-> made.status,
                     range |-> r,
                     matches |-> keyInRange(r, kc),
                     noLower |-> keyInRange([r EXCEPT !.lower = null], kc),
                     noUpper |-> keyInRange([r EXCEPT !.upper = null], kc)]
  /\ UNCHANGED <<txVars, ka, kb, kc, val, keyGenerator>>

NextKeys ==
  \/ Compare
  \/ MakeRange

SpecKeys == InitKeys /\ [][NextKeys]_vars

\* ---- the conversions applied to drawn values ----
InitValues ==
  /\ mode = "readonly"
  /\ state = "active"
  /\ requestList = <<>>
  /\ requests = <<>>
  /\ txError = "unset"
  /\ backendCalls = <<>>
  /\ events = <<>>
  /\ commitPc = "idle"
  /\ backendCommitOk = TRUE
  /\ commitCause = "none"
  /\ lastCall = NoCall
  /\ notified = NoNotification
  /\ ka = NoKey /\ kb = NoKey /\ kc = NoKey
  /\ val \in InputValues
  /\ keyGenerator = NewKeyGenerator
  /\ out = NoOut

\* extractKeyFromValueUsingKeyPath with multiEntry (line 412).
MultiEntry ==
  /\ out = NoOut
  /\ out' = [op |-> "multiEntry", key |-> valueToMultiEntryKey(val)]
  /\ UNCHANGED <<txVars, ka, kb, kc, val, keyGenerator>>

\* valueToKey on the value (lines 109-162), as IDBFactory.cmp, the key
\* argument of put/add and the key range constructors call it.
ToKey ==
  /\ out = NoOut
  /\ out' = [op |-> "valueToKey", key |-> valueToKey(val)]
  /\ UNCHANGED <<txVars, ka, kb, kc, val, keyGenerator>>

NextValues ==
  \/ MultiEntry
  \/ ToKey

SpecValues == InitValues /\ [][NextValues]_vars

\* ---- the key generator of one store ----
InitGenerator ==
  /\ mode = "readonly"
  /\ state = "active"
  /\ requestList = <<>>
  /\ requests = <<>>
  /\ txError = "unset"
  /\ backendCalls = <<>>
  /\ events = <<>>
  /\ commitPc = "idle"
  /\ backendCommitOk = TRUE
  /\ commitCause = "none"
  /\ lastCall = NoCall
  /\ notified = NoNotification
  /\ ka = NoKey /\ kb = NoKey /\ kc = NoKey
  /\ val = NoValue
  /\ keyGenerator = NewKeyGenerator
  /\ out = NoOut

\* add(value) / put(value): the operation of the request runs
\* storeRecordIntoObjectStore without a key.
StoreGenerated ==
  /\ Len(keyGenerator.calls) < MaxGeneratorCalls
  /\ keyGenerator' = storeRecordIntoObjectStore(keyGenerator, NoKey)
  /\ UNCHANGED <<txVars, ka, kb, kc, val, out>>

\* add(value, key) / put(value, key).
StoreExplicit ==
  /\ Len(keyGenerator.calls) < MaxGeneratorCalls
  /\ \E key \in ExplicitKeys :
       keyGenerator' = storeRecordIntoObjectStore(keyGenerator, key)
  /\ UNCHANGED <<txVars, ka, kb, kc, val, out>>

NextGenerator ==
  \/ StoreGenerated
  \/ StoreExplicit

SpecGenerator == InitGenerator /\ [][NextGenerator]_vars

\* The rank of a key type: Array > Binary > String > Number > Date.
TypeRank(type) ==
  CASE type = "array" -> 5
    [] type = "binary" -> 4
    [] type = "string" -> 3
    [] type = "number" -> 2
    [] type = "date" -> 1

\* The order of keys: by type, then numbers and dates by value, strings by
\* code unit and binaries by byte, a proper prefix first, and arrays element
\* by element, a proper prefix first.
RECURSIVE KeyOrder(_, _)
RECURSIVE ArrayOrder(_, _)
ArrayOrder(x, y) ==
  IF Len(x) = 0 \/ Len(y) = 0
  THEN (IF Len(x) > 0 THEN 1 ELSE IF Len(y) > 0 THEN -1 ELSE 0)
  ELSE LET c == KeyOrder(x[1], y[1])
       IN IF c # 0 THEN c ELSE ArrayOrder(Tail(x), Tail(y))

KeyOrder(a, b) ==
  IF a.type # b.type
  THEN (IF TypeRank(a.type) > TypeRank(b.type) THEN 1 ELSE -1)
  ELSE CASE a.type \in {"number", "date"} ->
              IF a.value > b.value THEN 1
              ELSE IF a.value < b.value THEN -1 ELSE 0
         [] a.type \in {"string", "binary"} ->
              IF StringLess(a.value, b.value) THEN -1
              ELSE IF StringLess(b.value, a.value) THEN 1 ELSE 0
         [] a.type = "array" -> ArrayOrder(a.value, b.value)

\* ---- opening a database: the upgrade transaction ----
\* op_indexeddb_open_database(name, version): the version the connection
\* gets and the version the database had; a version below the stored one
\* is refused.
op_indexeddb_open_database(stored, version) ==
  IF version < stored
  THEN [status |-> "VersionError", newVersion |-> stored, dbVersion |-> stored]
  ELSE [status |-> "ok", newVersion |-> version, dbVersion |-> stored]

\* The calls the handlers of an upgrade make.
UpgradeCalls ==
  {<<"createObjectStore">>, <<"deleteObjectStore">>, <<"get">>, <<"abort">>,
   <<"commit">>}

UpgradeScripts == UNION {[1..n -> UpgradeCalls] : n \in 0..MaxHandlerCalls}

\* runUpgradeTransaction (lines 651-679); script: the upgradeneeded handler.
runUpgradeTransaction(t, script) ==
  LET t1 == [t EXCEPT !.mode = "versionchange",
                      !.upgradeTransaction = "tx",
                      !.state = "inactive"]
      t2 == [t1 EXCEPT !.state = "active",
                       !.events = Append(@, <<"upgradeneeded", 0>>)]
      t3 == RunScript(t2, script, 1)
  IN [t3 EXCEPT !.state = "inactive"]

\* openDatabase (lines 687-706) with nothing to wait for.
openDatabase(t, stored, version, script) ==
  LET res == op_indexeddb_open_database(stored, version)
  IN IF res.status # "ok" THEN [t EXCEPT !.status = res.status]
     ELSE IF res.dbVersion < res.newVersion
     THEN [runUpgradeTransaction(t, script) EXCEPT !.status = "upgraded"]
     ELSE [t EXCEPT !.status = "opened"]

InitUpgrade ==
  /\ mode = "readonly"
  /\ state = "active"
  /\ requestList = <<>>
  /\ requests = <<>>
  /\ txError = "unset"
  /\ backendCalls = <<>>
  /\ events = <<>>
  /\ commitPc = "idle"
  /\ backendCommitOk = TRUE
  /\ commitCause = "none"
  /\ lastCall = NoCall
  /\ notified = NoNotification
  /\ ka = NoKey /\ kb = NoKey /\ kc = NoKey
  /\ val = NoValue
  /\ keyGenerator = NewKeyGenerator
  /\ \E stored \in 0..MaxVersion : out = [op |-> "database", stored |-> stored]

\* The transaction fields, connection[_upgradeTransaction] and the latest
\* schema call.
InstallUpgrade(t) ==
  /\ InstallTx(t)
  /\ out' = [out EXCEPT !.upgradeTransaction = t.upgradeTransaction,
                        !.ddl = IF t.ddl # <<>> THEN t.ddl ELSE @]
  /\ UNCHANGED <<ka, kb, kc, val, keyGenerator>>

\* IDBFactory.open(name, version) (lines 754-796) on a name nobody else
\* has opened.  upgraded: runUpgradeTransaction ran.
OpenDatabase ==
  /\ out.op = "database"
  /\ \E version \in 1..MaxVersion, script \in UpgradeScripts :
       LET t == openDatabase(Tx, out.stored, version, script)
       IN /\ Bounded(t)
          /\ InstallTx(t)
          /\ out' = [op |-> "connection", stored |-> out.stored,
                     requested |-> version, result |-> t.status,
                     upgraded |-> (t.status = "upgraded"),
                     upgradeTransaction |-> t.upgradeTransaction,
                     ddl |-> t.ddl]
  /\ UNCHANGED <<ka, kb, kc, val, keyGenerator>>

\* Calls on the connection and on the upgrade transaction from other tasks.
CreateObjectStore ==
  /\ out.op = "connection" /\ out.result # "VersionError"
  /\ LET t == IDBDatabase_createObjectStore(Tx) IN InstallUpgrade(t)

DeleteObjectStore ==
  /\ out.op = "connection" /\ out.result # "VersionError"
  /\ LET t == IDBDatabase_deleteObjectStore(Tx) IN InstallUpgrade(t)

AbortUpgrade ==
  /\ out.op = "connection" /\ out.upgraded
  /\ LET t == IDBTransaction_abort(Tx) IN InstallUpgrade(t)

CompleteUpgrade ==
  /\ out.op = "connection"
  /\ \E r \in 1..Len(requests), o \in Outcomes, script \in UpgradeScripts :
       /\ requests[r].opPending
       /\ LET t == Settle(Tx, r, o[1], script, o[2])
          IN Bounded(t) /\ InstallUpgrade(t)

CommitContinueUpgrade ==
  /\ out.op = "connection"
  /\ commitPc = "waiting"
  /\ AwaitedAll(requestList, requests)
  /\ LET t == CommitTail(Tx) IN InstallUpgrade(t)

NextUpgrade ==
  \/ OpenDatabase
  \/ CreateObjectStore
  \/ DeleteObjectStore
  \/ AbortUpgrade
  \/ CompleteUpgrade
  \/ CommitContinueUpgrade

SpecUpgrade == InitUpgrade /\ [][NextUpgrade]_vars

\* ---- cursors ----
\* createCursor (lines 2473-2485); undefined is NoKey.  source is "store"
\* for a cursor of an IDBObjectStore and "index" for one of an IDBIndex;
\* objectStorePosition is a class field that createCursor leaves undefined.
createCursor(direction, source, range, keyOnly) ==
  [direction |-> direction, source |-> source, range |-> range,
   keyOnly |-> keyOnly, position |-> NoKey, gotValue |-> FALSE,
   key |-> NoKey, value |-> NoKey, objectStorePosition |-> NoKey]

\* Lines 1417-1443 and 1462-1492: the test of one record [key, value] for
\* the directions next and prev; position is the local variable of the
\* loop.  The value of an index record is the primary key, which the code
\* reads back with valueToKey(core.deserialize(value)).
CursorAccepts(cursor, position, key, primaryKey, record) ==
  LET toward == IF cursor.direction = "next" THEN 1 ELSE -1
      recordKey == record.key
      a == key = NoKey \/ compareTwoKeys(recordKey, key) # -toward
      b == \/ primaryKey = NoKey
           \/ /\ compareTwoKeys(recordKey, key) = 0
              /\ compareTwoKeys(record.value, primaryKey) # -toward
           \/ compareTwoKeys(recordKey, key) = toward
      c == \/ position = NoKey
           \/ IF cursor.source = "store"
              THEN compareTwoKeys(recordKey, position) = toward
              ELSE \/ /\ compareTwoKeys(recordKey, position) = 0
                      /\ compareTwoKeys(record.value,
                                        cursor.objectStorePosition) = toward
                   \/ compareTwoKeys(recordKey, position) = toward
  IN a /\ b /\ c /\ keyInRange(cursor.range, recordKey)

\* Lines 1413-1561: the loop `for (; count > 0; count--)` with its local
\* variables position, objectStorePosition and foundRecord, on the records
\* the backend returns, which are in ascending order: "next" takes the
\* first accepted record (records.find), "prev" the last one (the loop from
\* the end).  found: the function returned the cursor, not null.
RECURSIVE IterateLoop(_, _, _, _, _, _, _, _)
\* The loop leaving the cursor as it is when no record is found.
IterateLoop_KeepsValue(cursor, key, primaryKey, count, records, position, objectStorePosition, foundRecord) ==
  IF count = 0
  THEN [cursor |-> [cursor EXCEPT
                      !.position = position,
                      !.objectStorePosition =
                         IF cursor.source = "index" THEN objectStorePosition
                         ELSE @,
                      !.key = foundRecord.key,
                      !.value = IF cursor.keyOnly THEN @ ELSE foundRecord.value,
                      !.gotValue = TRUE],
        found |-> TRUE]
  ELSE LET hits == {i \in 1..Len(records) :
                      CursorAccepts(cursor, position, key, primaryKey,
                                    records[i])}
           i == IF cursor.direction = "next"
                THEN CHOOSE m \in hits : \A n \in hits : m <= n
                ELSE CHOOSE m \in hits : \A n \in hits : m >= n
       IN IF hits = {}
          THEN [cursor |-> cursor, found |-> FALSE]
          ELSE IterateLoop(cursor, key, primaryKey, count - 1, records,
                           records[i].key,
                           IF cursor.source = "index" THEN records[i].value
                           ELSE objectStorePosition,
                           records[i])

IterateLoop(cursor, key, primaryKey, count, records, position, objectStorePosition, foundRecord) ==
  IF count = 0
  THEN [cursor |-> [cursor EXCEPT
                      !.position = position,
                      !.objectStorePosition =
                         IF cursor.source = "index" THEN objectStorePosition
                         ELSE @,
                      !.key = foundRecord.key,
                      !.value = IF cursor.keyOnly THEN @ ELSE foundRecord.value,
                      !.gotValue = TRUE],
        found |-> TRUE]
  ELSE LET hits == {i \in 1..Len(records) :
                      CursorAccepts(cursor, position, key, primaryKey,
                                    records[i])}
           i == IF cursor.direction = "next"
                THEN CHOOSE m \in hits : \A n \in hits : m <= n
                ELSE CHOOSE m \in hits : \A n \in hits : m >= n
       IN IF hits = {}
          THEN [cursor |-> [cursor EXCEPT
                              !.objectStorePosition =
                                 IF cursor.source = "index" THEN NoKey ELSE @,
                              !.value = IF cursor.keyOnly THEN @ ELSE NoKey],
                found |-> FALSE]
          ELSE IterateLoop(cursor, key, primaryKey, count - 1, records,
                           records[i].key,
                           IF cursor.source = "index" THEN records[i].value
                           ELSE objectStorePosition,
                           records[i])

\* iterateCursor(cursor, key, primaryKey, count = 1) (lines 1394-1562).
iterateCursor(cursor, key, primaryKey, count, records) ==
  IterateLoop(cursor, key, primaryKey, count, records, cursor.position,
              cursor.objectStorePosition, [key |-> NoKey, value |-> NoKey])

\* ---- the calls on a cursor (lines 2564-2776) ----
\* What a call on the cursor gives: the error it throws or "ok", the cursor
\* after it, whether its step found a record, and whether the cursor's
\* request was set back (a new processedDeferred, done = false) and pushed.
CursorCall(status, cursor, found, pushed) ==
  [status |-> status, cursor |-> cursor, found |-> found, pushed |-> pushed]

\* IDBCursor.advance(count) (lines 2564-2592); state is the state of the
\* cursor's transaction.  The operation is iterateCursor(this, count): count
\* is handed over as the key parameter, and the count parameter keeps its
\* default, 1.
IDBCursor_advance(cursor, txState, count, records) ==
  IF count = 0 THEN CursorCall("TypeError", cursor, FALSE, FALSE)
  ELSE IF txState # "active"
  THEN CursorCall("TransactionInactiveError", cursor, FALSE, FALSE)
  ELSE IF ~cursor.gotValue
  THEN CursorCall("InvalidStateError", cursor, FALSE, FALSE)
  ELSE LET it == iterateCursor([cursor EXCEPT !.gotValue = FALSE],
                               Destructured(count), NoKey, 1, records)
       IN CursorCall("ok", it.cursor, it.found, TRUE)

\* IDBCursor.continue(key) (lines 2595-2633) by its tests: the state of the
\* transaction and, when a key is given, the key against the position.
\* There is no test of gotValue.
IDBCursor_continue_key(cursor, txState, key, records) ==
  LET forward == cursor.direction = "next"
  IN IF txState # "active"
     THEN CursorCall("TransactionInactiveError", cursor, FALSE, FALSE)
     ELSE IF key = null THEN CursorCall("DataError", cursor, FALSE, FALSE)
     ELSE IF key # NoKey /\ forward
               /\ compareTwoKeys(key, cursor.position) # 1
     THEN CursorCall("DataError", cursor, FALSE, FALSE)
     ELSE IF key # NoKey /\ ~forward
               /\ compareTwoKeys(key, cursor.position) # -1
     THEN CursorCall("DataError", cursor, FALSE, FALSE)
     ELSE LET it == iterateCursor([cursor EXCEPT !.gotValue = FALSE], key,
                                  NoKey, 1, records)
          IN CursorCall("ok", it.cursor, it.found, TRUE)

\* IDBCursor.continuePrimaryKey(key, primaryKey) (lines 2636-2704); key and
\* primaryKey are what valueToKey made of the arguments.  The key is
\* compared with this[_direction], the string "next" or "prev", and the
\* primary key with this[_objectStorePosition], a deserialized value: both
\* are destructured like keys (line 209).
IDBCursor_continuePrimaryKey(cursor, txState, key, primaryKey, records) ==
  LET direction == Destructured(cursor.direction)
      objectStorePosition == Destructured(cursor.objectStorePosition)
  IN IF txState # "active"
     THEN CursorCall("TransactionInactiveError", cursor, FALSE, FALSE)
     ELSE IF cursor.source # "index"
     THEN CursorCall("InvalidAccessError", cursor, FALSE, FALSE)
     ELSE IF cursor.direction \notin {"next", "prev"}
     THEN CursorCall("InvalidAccessError", cursor, FALSE, FALSE)
     ELSE IF ~cursor.gotValue
     THEN CursorCall("InvalidAccessError", cursor, FALSE, FALSE)
     ELSE IF key = null \/ primaryKey = null
     THEN CursorCall("DataError", cursor, FALSE, FALSE)
     ELSE IF compareTwoKeys(key, direction) = -1 /\ cursor.direction = "next"
     THEN CursorCall("DataError", cursor, FALSE, FALSE)
     ELSE IF compareTwoKeys(key, direction) = 1 /\ cursor.direction = "prev"
     THEN CursorCall("DataError", cursor, FALSE, FALSE)
     ELSE IF /\ compareTwoKeys(key, direction) = 0
             /\ compareTwoKeys(primaryKey, objectStorePosition) # 1
             /\ cursor.direction = "next"
     THEN CursorCall("DataError", cursor, FALSE, FALSE)
     ELSE IF /\ compareTwoKeys(key, direction) = 0
             /\ compareTwoKeys(primaryKey, objectStorePosition) # -1
             /\ cursor.direction = "prev"
     THEN CursorCall("DataError", cursor, FALSE, FALSE)
     ELSE LET it == iterateCursor([cursor EXCEPT !.gotValue = FALSE], key,
                                  primaryKey, 1, records)
          IN CursorCall("ok", it.cursor, it.found, TRUE)

\* IDBCursor.update(value) (lines 2707-2750) and IDBCursor.delete() (lines
\* 2753-2776) by their tests; an accepted call pushes a request of its own.
IDBCursor_update(cursor, txState, txMode) ==
  IF txState # "active"
  THEN CursorCall("TransactionInactiveError", cursor, FALSE, FALSE)
  ELSE IF txMode = "readonly"
  THEN CursorCall("ReadOnlyError", cursor, FALSE, FALSE)
  ELSE IF ~cursor.gotValue
  THEN CursorCall("InvalidStateError", cursor, FALSE, FALSE)
  ELSE IF cursor.keyOnly
  THEN CursorCall("InvalidStateError", cursor, FALSE, FALSE)
  ELSE CursorCall("ok", cursor, FALSE, TRUE)

IDBCursor_delete(cursor, txState, txMode) ==
  IF txState # "active"
  THEN CursorCall("TransactionInactiveError", cursor, FALSE, FALSE)
  ELSE IF txMode = "readonly"
  THEN CursorCall("ReadOnlyError", cursor, FALSE, FALSE)
  ELSE IF ~cursor.gotValue
  THEN CursorCall("InvalidStateError", cursor, FALSE, FALSE)
  ELSE IF cursor.keyOnly
  THEN CursorCall("InvalidStateError", cursor, FALSE, FALSE)
  ELSE CursorCall("ok", cursor, FALSE, TRUE)

\* The keys handed to the calls on a cursor.
StepKeys == {Key("number", n) : n \in 1..3}

\* IDBCursor.continue() (lines 2595-2633) without a key: the cursor's
\* request is reset and pushed on the list again.
IDBCursor_continue(t, r) ==
  IF t.state # "active"
  THEN Recorded("continue", "TransactionInactiveError", t, t)
  ELSE Recorded("continue", "ok", t,
         [t EXCEPT !.requests[r].processed = FALSE,
                   !.requests[r].done = FALSE,
                   !.requests[r].opPending = TRUE,
                   !.requestList = Append(@, r)])

\* The keys of the records of the store.
CursorKeys ==
  {Key("number", 1), Key("number", 2), Key("number", 3),
   Key("binary", <<1>>), Key("binary", <<2>>)}

\* The records of a store as the backend returns them, in key order.
RECURSIVE Ascending(_)
Ascending(S) ==
  IF S = {} THEN <<>>
  ELSE LET m == CHOOSE x \in S : \A y \in S : KeyOrder(x, y) <= 0
       IN <<m>> \o Ascending(S \ {m})

\* op_indexeddb_object_store_get_records (line 1404): the records of the
\* store, [key, value]; a value is told from the others by its key.
StoreRecords(keys) ==
  [i \in 1..Len(keys) |-> [key |-> keys[i], value |-> keys[i]]]

\* op_indexeddb_index_get_records (line 1409): the records of an index over
\* the store, [index key, primary key], in the order of both; every index
\* key is that of the two records with the primary keys 1 and 2.
IndexRecords(keys) ==
  [i \in 1..(2 * Len(keys)) |->
     [key |-> keys[(i + 1) \div 2], value |-> Key("number", 2 - (i % 2))]]

CursorRecords(source, keys) ==
  IF source = "store" THEN StoreRecords(keys) ELSE IndexRecords(keys)

CursorRanges ==
  {c.range : c \in
     {IDBKeyRange_bound(a, b, lo, uo) :
        a \in CursorKeys, b \in CursorKeys, lo \in BOOLEAN, uo \in BOOLEAN}
     \cup {IDBKeyRange_lowerBound(a, lo) : a \in CursorKeys, lo \in BOOLEAN}
     \cup {IDBKeyRange_upperBound(a, lo) : a \in CursorKeys, lo \in BOOLEAN}}
    \ {createRange(null, null, FALSE, FALSE)}

InitCursor ==
  /\ mode = "readonly"
  /\ state = "active"
  /\ requestList = <<>>
  /\ requests = <<>>
  /\ txError = "unset"
  /\ backendCalls = <<>>
  /\ events = <<>>
  /\ commitPc = "idle"
  /\ backendCommitOk = TRUE
  /\ commitCause = "none"
  /\ lastCall = NoCall
  /\ notified = NoNotification
  /\ ka = NoKey /\ kb = NoKey /\ kc = NoKey
  /\ val = NoValue
  /\ keyGenerator = NewKeyGenerator
  /\ \E S \in SUBSET CursorKeys : out = [op |-> "store", records |-> Ascending(S)]

\* openCursor / openKeyCursor(range, direction) of IDBObjectStore (lines
\* 1826-1888) and of IDBIndex (lines 2230-2292): the request is pushed and
\* its operation, iterateCursor(cursor), runs.
\* records: the keys of the records the cursor iterates over;
\* seen: the keys the success handler has read from the cursor so far;
\* exhausted: a success was delivered with the result null.
OpenCursor ==
  /\ out.op = "store"
  /\ state = "active"
  /\ \E direction \in {"next", "prev"}, range \in CursorRanges,
        source \in {"store", "index"}, keyOnly \in BOOLEAN :
       LET t == asynchronouslyExecuteRequest(Tx)
           records == CursorRecords(source, out.records)
           it == iterateCursor(createCursor(direction, source, range, keyOnly),
                               NoKey, NoKey, 1, records)
       IN /\ InstallTx(t)
          /\ out' = [op |-> "cursor",
                     records |-> [i \in 1..Len(records) |-> records[i].key],
                     request |-> Len(t.requests), cursor |-> it.cursor,
                     found |-> it.found, seen |-> <<>>, exhausted |-> FALSE]
  /\ UNCHANGED <<ka, kb, kc, val, keyGenerator>>

\* The records under the cursor of the state.
RecordsOfCursor ==
  IF out.cursor.source = "store" THEN StoreRecords(out.records)
  ELSE [i \in 1..Len(out.records) |->
          [key |-> out.records[i], value |-> Key("number", 2 - (i % 2))]]

\* The cursor's request completes (lines 489-540, result = the cursor or
\* null); its success handler reads cursor.key and may call continue(),
\* whose operation, iterateCursor(this, undefined), runs inside the call
\* after continue has set gotValue to false (line 2624).
CompleteCursor ==
  /\ out.op = "cursor"
  /\ requests[out.request].opPending
  /\ Len(out.seen) < MaxSeen
  /\ \E again \in BOOLEAN :
       LET r == out.request
           t1 == MarkProcessed([Tx EXCEPT !.requests[r].opPending = FALSE],
                               r, FALSE)
           t2 == Notify(t1, r, "success", <<>>)
           calls == out.found /\ again
           t3 == IF calls THEN IDBCursor_continue(t2, r) ELSE t2
           go == calls /\ t3.status = "ok"
           it == iterateCursor([out.cursor EXCEPT !.gotValue = FALSE], NoKey,
                               NoKey, 1, RecordsOfCursor)
       IN /\ InstallTx(AfterNotify(t3, r, FALSE, FALSE))
          /\ out' = [out EXCEPT
                       !.seen = IF out.found THEN Append(@, out.cursor.key)
                                ELSE @,
                       !.exhausted = ~out.found,
                       !.cursor = IF go THEN it.cursor ELSE @,
                       !.found = IF go THEN it.found ELSE @]
  /\ UNCHANGED <<ka, kb, kc, val, keyGenerator>>

NextCursor ==
  \/ OpenCursor
  \/ CompleteCursor

SpecCursor == InitCursor /\ [][NextCursor]_vars

\* ---- add(value) on a store with a key generator and no key path ----
InitStore ==
  /\ mode \in Modes
  /\ state = "active"
  /\ requestList = <<>>
  /\ requests = <<>>
  /\ txError = "unset"
  /\ backendCalls = <<>>
  /\ events = <<>>
  /\ commitPc = "idle"
  /\ backendCommitOk \in BOOLEAN
  /\ commitCause = "none"
  /\ lastCall = NoCall
  /\ notified = NoNotification
  /\ ka = NoKey /\ kb = NoKey /\ kc = NoKey
  /\ val = NoValue
  /\ keyGenerator = NewKeyGenerator
  /\ out = [op |-> "add", results |-> <<>>]

\* IDBObjectStore.add(value) (lines 1659-1673), key undefined: addOrPut, and
\* once the request is pushed its operation runs storeRecordIntoObjectStore
\* up to the backend call (line 476 calls operation() before the await).
\* results: per call, in order, the error addOrPut threw, or what
\* generateKey did and the key that the operation returns, which becomes
\* the request's result (line 522).
AddNoKey ==
  /\ Len(out.results) < MaxGeneratorCalls
  /\ LET t == addOrPut(Tx, "ok")
         g == storeRecordIntoObjectStore(keyGenerator, NoKey)
     IN /\ Bounded(t)
        /\ InstallTx(t)
        /\ IF t.status = "ok"
           THEN /\ keyGenerator' = g
                /\ out' = [out EXCEPT !.results =
                    Append(@, [status |-> g.calls[Len(g.calls)].op,
                               key |-> g.calls[Len(g.calls)].key])]
           ELSE /\ keyGenerator' = keyGenerator
                /\ out' = [out EXCEPT !.results =
                    Append(@, [status |-> t.status, key |-> NoKey])]
  /\ UNCHANGED <<ka, kb, kc, val>>

\* add among the other calls on the transaction.
NextStore ==
  \/ AddNoKey
  \/ Get
  \/ Commit
  \/ Abort
  \/ Complete
  \/ CommitContinue

SpecStore == InitStore /\ [][NextStore]_vars

\* ---- the connection queue: IDBFactory.open and IDBFactory.deleteDatabase ----
\* connectionQueue (line 643) maps a database name to the array of the
\* requests that went on; a request is pushed only after it awaited the
\* processedDeferred of every entry of the array (lines 688-692, 710-714).
\* The awaits suspend the async function; the jobs that resume it run from
\* the microtask queue, first in first out.
DatabaseNames == {"a", "b"}

\* The factory before any call: no request, an empty connectionQueue, no
\* microtask pending.
NewFactory ==
  [op |-> "factory",
   reqs |-> <<>>,
   queue |-> [n \in DatabaseNames |-> <<>>],
   jobs |-> <<>>,
   log |-> <<>>]

\* webidl.createBranded(IDBOpenDBRequest) (lines 776, 809): a request with an
\* unresolved processedDeferred (line 581).  upgrade is what the backend
\* will answer for an open: a stored version below the new one.
\* upgradeTransaction is the state of the transaction runUpgradeTransaction
\* makes for the request: "null" when there is none, else "unfinished" or
\* "finished".
NewRequest(f, kind, name, upgrade) ==
  [f EXCEPT !.reqs = Append(@,
     [kind |-> kind, name |-> name, upgrade |-> upgrade, pc |-> "called",
      idx |-> 0, processed |-> FALSE, waiters |-> <<>>, waited |-> FALSE,
      upgradeTransaction |-> "null"])]

\* request[_processedDeferred].resolve() (lines 661, 813, 825): the
\* functions awaiting the promise are queued as microtasks in the order in
\* which they began to wait.
Resolve(f, r) ==
  [f EXCEPT !.reqs[r].processed = TRUE,
            !.reqs[r].waiters = <<>>,
            !.jobs = @ \o [i \in 1..Len(f.reqs[r].waiters) |->
                            [job |-> "resume", req |-> f.reqs[r].waiters[i]]]]

\* `await openRequest[_processedDeferred].promise` (lines 689, 711) on the
\* i-th entry of the array: on a resolved promise the continuation is queued
\* at once, on a pending one it is queued when the promise resolves.
AwaitProcessed(f, r, i) ==
  LET target == f.queue[f.reqs[r].name][i]
      g == [f EXCEPT !.reqs[r].pc = "await",
                     !.reqs[r].idx = i,
                     !.reqs[r].waited = TRUE]
  IN IF f.reqs[target].processed
     THEN [g EXCEPT !.jobs = Append(@, [job |-> "resume", req |-> r])]
     ELSE [g EXCEPT !.reqs[target].waiters = Append(@, r)]

\* The rest of openDatabase (lines 691-705) and of deleteDatabase (lines
\* 713-744) after the loop: the request goes on the array, openDatabase calls
\* op_indexeddb_open_database and runs the upgrade transaction, which
\* resolves the processedDeferred (line 661), when the stored version is
\* lower; deleteDatabase issues no backend call (TODO of line 743).  The
\* function returns and the caller's await of its promise takes a microtask.
\* The log keeps, for each request in the order of this step, the earlier
\* requests on its name whose processedDeferred was still pending.
Proceed(f, r) ==
  LET n == f.reqs[r].name
      pending == {q \in 1..Len(f.reqs) :
                    /\ q < r
                    /\ f.reqs[q].name = n
                    /\ ~f.reqs[q].processed}
      g == [f EXCEPT !.queue[n] = Append(@, r),
                     !.log = Append(@, [req |-> r, pending |-> pending]),
                     !.reqs[r].pc = "returned",
                     !.jobs = Append(@, [job |-> "finish", req |-> r])]
  IN IF f.reqs[r].kind = "open" /\ f.reqs[r].upgrade
     THEN Resolve([g EXCEPT !.reqs[r].upgradeTransaction = "unfinished"], r)
     ELSE g

\* The loop awaiting the first entry only.
ForOfConnectionQueue_FirstEntryOnly(f, r, i) ==
  IF i = 1 /\ i <= Len(f.queue[f.reqs[r].name])
  THEN AwaitProcessed(f, r, i)
  ELSE Proceed(f, r)

\* `for (const openRequest of connectionQueue.get(name) ?? [])` (lines 688,
\* 710) about to take the i-th entry: the array iterator reads the length of
\* the array at each step, so entries pushed during an await are taken too.
ForOfConnectionQueue(f, r, i) ==
  IF i <= Len(f.queue[f.reqs[r].name])
  THEN AwaitProcessed(f, r, i)
  ELSE Proceed(f, r)

\* The continuation of the async function in IDBFactory.open (lines 780-782)
\* and IDBFactory.deleteDatabase (lines 813-824) after the await: the delete
\* request resolves its processedDeferred, and both set done and dispatch
\* success.
Finish(f, r) ==
  LET g == [f EXCEPT !.reqs[r].pc = "done"]
  IN IF f.reqs[r].kind = "delete" THEN Resolve(g, r) ELSE g

InitOpen ==
  /\ mode = "readonly"
  /\ state = "active"
  /\ requestList = <<>>
  /\ requests = <<>>
  /\ txError = "unset"
  /\ backendCalls = <<>>
  /\ events = <<>>
  /\ commitPc = "idle"
  /\ backendCommitOk = TRUE
  /\ commitCause = "none"
  /\ lastCall = NoCall
  /\ notified = NoNotification
  /\ ka = NoKey /\ kb = NoKey /\ kc = NoKey
  /\ val = NoValue
  /\ keyGenerator = NewKeyGenerator
  /\ out = NewFactory

\* IDBFactory.open (lines 754-796): the async function runs up to its first
\* await inside the call.
IDBFactory_open ==
  /\ out.op = "factory"
  /\ Len(out.reqs) < MaxOpenRequests
  /\ \E n \in DatabaseNames, upgrade \in BOOLEAN :
       out' = ForOfConnectionQueue(NewRequest(out, "open", n, upgrade),
                                   Len(out.reqs) + 1, 1)
  /\ UNCHANGED <<txVars, ka, kb, kc, val, keyGenerator>>

\* IDBFactory.deleteDatabase (lines 799-838).
IDBFactory_deleteDatabase ==
  /\ out.op = "factory"
  /\ Len(out.reqs) < MaxOpenRequests
  /\ \E n \in DatabaseNames :
       out' = ForOfConnectionQueue(NewRequest(out, "delete", n, FALSE),
                                   Len(out.reqs) + 1, 1)
  /\ UNCHANGED <<txVars, ka, kb, kc, val, keyGenerator>>

\* The event loop runs the oldest microtask: a function resumed after its
\* await goes on with the next entry of the array, or the caller of
\* openDatabase / deleteDatabase goes on after its await.
RunMicrotask ==
  /\ out.op = "factory"
  /\ out.jobs # <<>>
  /\ LET j == Head(out.jobs)
         f == [out EXCEPT !.jobs = Tail(@)]
     IN out' = IF j.job = "resume"
               THEN ForOfConnectionQueue(f, j.req, f.reqs[j.req].idx + 1)
               ELSE Finish(f, j.req)
  /\ UNCHANGED <<txVars, ka, kb, kc, val, keyGenerator>>

NextOpen ==
  \/ IDBFactory_open
  \/ IDBFactory_deleteDatabase
  \/ RunMicrotask

SpecOpen == InitOpen /\ [][NextOpen]_vars

\* The event loop does not leave a queued microtask unrun for ever.
SpecOpenLive == InitOpen /\ [][NextOpen]_vars /\ WF_vars(RunMicrotask)

\* The upgrade transaction of a request finishes: commitTransaction (line
\* 560) or abortTransaction (line 371) sets its state to finished.
FinishUpgradeTransaction ==
  /\ out.op = "factory"
  /\ \E r \in 1..Len(out.reqs) :
       /\ out.reqs[r].upgradeTransaction = "unfinished"
       /\ out' = [out EXCEPT !.reqs[r].upgradeTransaction = "finished"]
  /\ UNCHANGED <<txVars, ka, kb, kc, val, keyGenerator>>

\* The connection queue with the upgrade transactions the opens start.
NextOpenUpgrade ==
  \/ IDBFactory_open
  \/ IDBFactory_deleteDatabase
  \/ RunMicrotask
  \/ FinishUpgradeTransaction

SpecOpenUpgrade == InitOpen /\ [][NextOpenUpgrade]_vars

\* ---- IDBKeyRange.includes (lines 2455-2468) ----
\* includes converts its argument into keyVal, raises DataError when there
\* is no key, and hands the argument itself, not keyVal, to keyInRange
\* (line 2467), whose compareTwoKeys destructures it.
IDBKeyRange_includes(range, key) ==
  LET keyVal == valueToKey(key)
  IN IF keyVal = null
     THEN [status |-> "DataError", result |-> FALSE]
     ELSE [status |-> "ok", result |-> keyInRange(range, Destructured(key))]

\* The bounds of the ranges includes is called on.
IncludesBounds ==
  {Key("number", 0), Key("number", 1), Key("number", 2),
   Key("string", <<97>>)}

InitIncludes ==
  /\ mode = "readonly"
  /\ state = "active"
  /\ requestList = <<>>
  /\ requests = <<>>
  /\ txError = "unset"
  /\ backendCalls = <<>>
  /\ events = <<>>
  /\ commitPc = "idle"
  /\ backendCommitOk = TRUE
  /\ commitCause = "none"
  /\ lastCall = NoCall
  /\ notified = NoNotification
  /\ ka \in IncludesBounds /\ kb \in IncludesBounds /\ kc = NoKey
  /\ val \in InputValues
  /\ keyGenerator = NewKeyGenerator
  /\ out = NoOut

\* A range is made by one of the constructors from ka and kb, and includes
\* is called on it with the value.
Includes ==
  /\ out = NoOut
  /\ \E ctor \in {"only", "lowerBound", "upperBound", "bound"},
        lowerOpen, upperOpen \in BOOLEAN :
       /\ ctor = "only" => (~lowerOpen /\ ~upperOpen)
       /\ ctor = "lowerBound" => ~upperOpen
       /\ ctor = "upperBound" => ~lowerOpen
       /\ LET made == Constructed(ctor, lowerOpen, upperOpen)
              res == IDBKeyRange_includes(made.range, val)
          IN /\ made.status = "ok"
             /\ out' = [op |-> "includes", range |-> made.range,
                        status |-> res.status, result |-> res.result]
  /\ UNCHANGED <<txVars, ka, kb, kc, val, keyGenerator>>

NextIncludes == Includes

SpecIncludes == InitIncludes /\ [][NextIncludes]_vars

TypeOK ==
  /\ mode \in Modes
  /\ state \in TransactionState
  /\ Len(requests) <= MaxReq
  /\ Range(requestList) \subseteq 1..Len(requests)
  /\ commitPc \in {"idle", "waiting", "done", "rejected"}
  /\ backendCommitOk \in BOOLEAN
  /\ commitCause \in {"none", "explicit", "auto"}
  /\ notified.req \in 0..Len(requests)

\* ---- helpers of the properties ----
NoOperationInFlight == \A r \in 1..Len(requests) : ~requests[r].opPending

After(e, i) == \E j \in 1..Len(events) : j > i /\ events[j] = e

InFlightAtAbort == {r \in 1..Len(requests) : requests[r].inFlightAtAbort}

CallBefore(a, b) ==
  \E i, j \in 1..Len(backendCalls) :
    i < j /\ backendCalls[i] = a /\ backendCalls[j] = b

\* ---- the properties ----

\* C1: auto-commit.  A transaction on which requests were enqueued and all
\* of them have been processed has begun to commit (it is Committing or
\* Finished) without any explicit commit().
C1_AutoCommit ==
  (Len(requests) > 0 /\ NoOperationInFlight)
    => state \in {"committing", "finished"}

\* C2: the request list holds exactly the enqueued requests whose
\* completion has not yet been processed.
C2_QueueHoldsUnprocessed ==
  \A r \in 1..Len(requests) : (r \in Range(requestList)) <=> requests[r].opPending

\* C3: the transaction never enters Committing by auto-commit while an
\* enqueued request, in particular one enqueued by a handler during a
\* completion notification, is still unprocessed.
C3_NoAutoCommitWhileQueued ==
  (commitCause = "auto") => NoOperationInFlight

\* C3 witness: a handler enqueued a request during the notification of
\* another request, and after that notification the transaction is Inactive
\* with the new request in flight and no commit begun.
C3_Witness ==
  /\ \E r \in 1..Len(requests) : requests[r].byHandler /\ requests[r].opPending
  /\ \E i \in 1..Len(events) : events[i][1] = "success"
  /\ state = "inactive"
  /\ commitCause = "none"

\* C4: abort completeness.  After abort() every request that was pending at
\* the call has done = true, result undefined and error = AbortError, and
\* none of them gets a success notification after the abort notification.
C4_AbortCompleteness ==
  (lastCall.op = "abort" /\ lastCall.status = "ok") =>
    /\ \A r \in InFlightAtAbort :
         /\ requests[r].done
         /\ requests[r].error = "AbortError"
         /\ requests[r].result = "undefined"
    /\ \A r \in InFlightAtAbort, i \in 1..Len(events) :
         events[i][1] = "abort" => ~After(<<"success", r>>, i)

\* C5: no partial commit.  Once the backend abort call was issued for the
\* transaction, the backend commit call is never issued for it.
C5_NoCommitAfterAbort ==
  ~CallBefore("abort", "commit")

\* C6: the backend commit call is issued only after the completion signal
\* of every listed request has resolved (no request is still pending then),
\* and the complete notification comes after every request's own success or
\* error notification.
C6_CommitAfterAllRequests ==
  /\ ("commit" \in Range(backendCalls)) =>
       \A r \in Range(requestList) : requests[r].processed /\ requests[r].done
  /\ \A j \in 1..Len(events) :
       events[j][1] = "complete" =>
         \A r \in Range(requestList) :
           \E i \in 1..(j - 1) :
             events[i][2] = r /\ events[i][1] \in {"success", "error"}

\* C6 witness: a transaction with two requests committed and delivered
\* complete.
C6_Witness ==
  /\ Len(requestList) >= 2
  /\ state = "finished"
  /\ backendCalls = <<"commit">>
  /\ events[Len(events)] = <<"complete", 0>>

\* C7: when the backend commit call fails, the transaction is aborted with
\* that error: it is Finished, its error is the backend failure, an abort
\* notification and no complete notification was delivered.
C7_CommitFailureAborts ==
  (commitPc = "rejected") =>
    /\ state = "finished"
    /\ txError = "CommitError"
    /\ <<"abort", 0>> \in Range(events)
    /\ <<"complete", 0>> \notin Range(events)

\* C8: commit() succeeds only in Active and then the state is Committing
\* when the call returns; in any other state it raises InvalidStateError
\* and leaves the state and the request list unchanged.
C8_CommitOnlyFromActive ==
  (lastCall.op = "commit") =>
    IF lastCall.pre = "active"
    THEN lastCall.status = "ok" /\ lastCall.post = "committing"
    ELSE /\ lastCall.status = "InvalidStateError"
         /\ lastCall.post = lastCall.pre
         /\ lastCall.pushed = 0

\* C9: abort() in Active or Inactive runs the abort procedure (one backend
\* abort call) and leaves the transaction Finished; in Committing or
\* Finished it raises InvalidStateError, issues no backend call and leaves
\* the state unchanged.
C9_AbortGuard ==
  (lastCall.op = "abort") =>
    IF lastCall.pre \in {"active", "inactive"}
    THEN /\ lastCall.status = "ok"
         /\ lastCall.post = "finished"
         /\ lastCall.backend = 1
    ELSE /\ lastCall.status = "InvalidStateError"
         /\ lastCall.post = lastCall.pre
         /\ lastCall.backend = 0

\* C9 witness: abort() was accepted on an Inactive transaction that had a
\* request in flight, and the transaction is Finished with the abort
\* notification delivered.
C9_Witness ==
  /\ lastCall.op = "abort"
  /\ lastCall.pre = "inactive"
  /\ lastCall.status = "ok"
  /\ InFlightAtAbort # {}
  /\ state = "finished"
  /\ events[Len(events)] = <<"abort", 0>>

\* C10: Finished is terminal and Committing only moves to Finished.  A
\* transaction whose abort or complete notification was delivered (its
\* state was set to Finished) is Finished in every later state, and no step
\* takes a Committing transaction to Active or Inactive.
C10_FinishedIsTerminal ==
  /\ []((\E i \in 1..Len(events) : events[i][1] \in {"abort", "complete"})
          => state = "finished")
  /\ [][state = "committing" => state' \in {"committing", "finished"}]_vars

\* C11: a completion notification delivered for an Inactive transaction
\* finds it Active at dispatch, it stays Active until the dispatch returns
\* and is Inactive right after, unless a handler's commit() or abort() was
\* accepted meanwhile; a Committing or Finished transaction is not Active at
\* any point of a notification.
C11_ActiveDuringNotification ==
  (notified.req # 0) =>
    /\ (notified.pre = "inactive") =>
          /\ notified.atDispatch = "active"
          /\ ~notified.ended =>
                (notified.atReturn = "active" /\ notified.deact = "inactive")
    /\ (notified.pre \in {"committing", "finished"}) =>
          /\ notified.atDispatch = notified.pre
          /\ notified.atReturn = notified.pre
          /\ notified.deact = notified.pre

\* C12: a request whose operation failed while the transaction was not
\* Committing has done = true, result undefined and error = the failure
\* cause, and its error notification was dispatched; when the notification
\* returned with the transaction still Active, the transaction is aborted
\* with that error if no handler cancelled the event, and otherwise it is
\* not aborted and goes on: Inactive, or committing by auto-commit when
\* no request is left unprocessed.
C12_OperationFailure ==
  (notified.req # 0 /\ notified.errored) =>
    LET r == notified.req IN
    /\ requests[r].done
    /\ requests[r].result = "undefined"
    /\ requests[r].error = "OpError"
    /\ <<"error", r>> \in Range(events)
    /\ (notified.atReturn = "active" /\ ~notified.canceled) =>
          /\ state = "finished"
          /\ txError = "OpError"
          /\ events[Len(events)] = <<"abort", 0>>
    /\ (notified.atReturn = "active" /\ notified.canceled) =>
          /\ state # "finished"
          /\ IF NoOperationInFlight
             THEN commitCause = "auto" /\ state = "committing"
             ELSE state = "inactive"

C14_ReadOnlyRejected ==
  (state = "active") =>
    \A c \in RequestCalls \ {<<"get">>} :
      LET t == ApplyCall(Tx, c)
      IN /\ (t.status = "ReadOnlyError") <=> (mode = "readonly")
         /\ (t.status = "ReadOnlyError") => (t.requestList = requestList)

\* C15: compare is a total order on keys: compare(a, a) = 0,
\* compare(a, b) = -compare(b, a), and compare(a, b) <= 0 and
\* compare(b, c) <= 0 imply compare(a, c) <= 0.
C15_CompareTotalOrder ==
  (out.op = "compare") =>
    /\ out.aa = 0
    /\ out.ab = 0 - out.ba
    /\ (out.ab <= 0 /\ out.bc <= 0) => out.ac <= 0

\* C16: for keys of different types compare returns 1 when the type of the
\* first is higher in Array > Binary > String > Number > Date and -1
\* otherwise, whatever the values are.
C16_CrossTypePrecedence ==
  (out.op = "compare" /\ ka.type # kb.type) =>
    /\ out.ab = (IF TypeRank(ka.type) > TypeRank(kb.type) THEN 1 ELSE -1)
    /\ out.ba = 0 - out.ab

\* C16 witness: an empty array was compared with a binary of two bytes and
\* came out greater, and that binary greater than a string.
C16_Witness ==
  /\ out.op = "compare"
  /\ ka = Key("array", <<>>)
  /\ kb = Key("binary", <<1, 2>>)
  /\ kc = Key("string", <<98>>)
  /\ out.ab = 1
  /\ out.bc = 1

\* The keys of the convertible elements of an array value, in order.
RECURSIVE ConvertibleKeys(_, _)
ConvertibleKeys(items, i) ==
  IF i > Len(items) THEN <<>>
  ELSE LET k == valueToKey(items[i])
       IN (IF k.type = "null" THEN <<>> ELSE <<k>>)
            \o ConvertibleKeys(items, i + 1)

\* A sequence of keys without the elements that compare equal to an
\* earlier one.
RECURSIVE FirstOccurrences(_, _, _)
FirstOccurrences(keys, i, acc) ==
  IF i > Len(keys) THEN acc
  ELSE FirstOccurrences(keys, i + 1,
         IF \E j \in 1..Len(acc) : compareTwoKeys(acc[j], keys[i]) = 0
         THEN acc
         ELSE Append(acc, keys[i]))

\* C17: for an array value the multi-entry key is the array key of the
\* convertible elements' keys, each distinct one (by compare = 0) once, in
\* the order of first occurrence; for any other value it is valueToKey's.
C17_MultiEntryDedupe ==
  (out.op = "multiEntry") =>
    IF val.t = "Array"
    THEN out.key =
           Key("array", FirstOccurrences(ConvertibleKeys(val.v, 1), 1, <<>>))
    ELSE out.key = valueToKey(val)

\* C18: a key matches a range iff (the lower bound is absent, or
\* compare(lower, key) = -1, or it is 0 and the lower bound is closed) and
\* (the upper bound is absent, or compare(upper, key) = 1, or it is 0 and
\* the upper bound is closed); and a key that matches still matches when
\* the lower or the upper bound is taken away.
C18_MatchesRange ==
  (out.op = "range" /\ out.status = "ok") =>
    LET r == out.range
        lo == IF r.lower = null THEN 2 ELSE compareTwoKeys(r.lower, kc)
        hi == IF r.upper = null THEN 2 ELSE compareTwoKeys(r.upper, kc)
    IN /\ out.matches <=>
            /\ (lo = 2 \/ lo = -1 \/ (lo = 0 /\ ~r.lowerOpen))
            /\ (hi = 2 \/ hi = 1 \/ (hi = 0 /\ ~r.upperOpen))
       /\ out.matches => (out.noLower /\ out.noUpper)

\* C18 witness: a key equal to the open lower bound of bound(0, 1, open,
\* closed) does not match, and matches once the lower bound is taken away.
C18_Witness ==
  /\ out.op = "range"
  /\ out.ctor = "bound"
  /\ ka = Key("number", 0) /\ kb = Key("number", 1) /\ kc = Key("number", 0)
  /\ out.lowerOpen /\ ~out.upperOpen
  /\ ~out.matches
  /\ out.noLower

\* C19: bound fails exactly when the lower key is greater than the upper
\* key; a range made by a constructor that has both bounds has
\* lower <= upper; and a range with equal bounds of which one is open is
\* accepted and matches no key.
C19_BoundOrdered ==
  (out.op = "range") =>
    /\ (out.ctor = "bound") =>
          ((out.status = "DataError") <=> (KeyOrder(ka, kb) = 1))
    /\ (out.status = "ok" /\ out.range.lower # null /\ out.range.upper # null)
          => KeyOrder(out.range.lower, out.range.upper) <= 0
    /\ (out.ctor = "bound" /\ ka = kb /\ (out.lowerOpen \/ out.upperOpen))
          => /\ out.status = "ok"
             /\ ~out.matches
             /\ \A k \in Keys : ~keyInRange(out.range, k)

\* C20: over any sequence of generateKey and possiblyUpdate calls on one
\* generator, current never decreases, and every generated key is
\* strictly greater than every key generated before it and than every
\* numeric key handed to possiblyUpdate before it (so no key is issued
\* twice).
C20_GeneratorMonotonic ==
  LET calls == keyGenerator.calls
  IN \A i, j \in 1..Len(calls) :
       (i < j) =>
         /\ ~NumLess(calls[j].current, calls[i].current)
         /\ (calls[j].op = "generateKey" /\ calls[i].key.type = "number")
              => NumLess(calls[i].key.value, calls[j].key.value)

\* C21: on an Active read-write transaction over a store with a key
\* generator and no key path, the n-th add(value) without a key is accepted
\* and its request's result is the key n.
C21_AddGeneratesKeys ==
  (out.op = "add" /\ mode = "readwrite") =>
    \A n \in 1..Len(out.results) :
      out.results[n].key = Key("number", Num(0, n, 0))

\* C25: a call that throws a validation error (TransactionInactiveError,
\* ReadOnlyError, InvalidStateError, or the clone error of a put/add whose
\* value cannot be cloned) leaves the transaction's state, its request
\* list and requests, and the backend as they were.
C25_ValidationNoSideEffects ==
  \A c \in ApiCalls :
    LET t == ApplyCall(Tx, c)
    IN (t.status # "ok") =>
         /\ t.state = state
         /\ t.requestList = requestList
         /\ t.requests = requests
         /\ t.backendCalls = backendCalls
         /\ t.events = events

\* C26: a request that has completed with success keeps its result and its
\* (absent) error and gets no error notification afterwards, whatever
\* abort does later.
C26_AbortSparesCompleted ==
  \A i \in 1..Len(events) :
    (events[i][1] = "success") =>
      LET r == events[i][2]
      IN /\ requests[r].result = "value"
         /\ requests[r].error = "undefined"
         /\ \A j \in (i + 1)..Len(events) : events[j] # <<"error", r>>

\* C27 (as stated): the abort procedure calls the backend, then marks and
\* notifies each request while the transaction is not yet finished, then
\* sets the state to finished, then notifies the abort.
C27_AbortOrder ==
  (out.op = "abortTransaction") =>
    /\ out.order[1].step = "backend"
    /\ \A i \in 1..Len(out.order) :
         /\ (out.order[i].step = "error") => out.order[i].state # "finished"
         /\ (out.order[i].step = "abort") => out.order[i].state = "finished"

\* C27 (amended): the abort procedure calls the backend while the
\* transaction is not finished, sets the state to finished, then marks and
\* notifies each listed request, then notifies the abort; the transaction
\* is finished at every one of these notifications.
C27_AbortOrderFinishedFirst ==
  (out.op = "abortTransaction") =>
    /\ out.order[Len(out.order)].step = "abort"
    /\ \A i \in 1..Len(out.order) :
         IF out.order[i].step = "backend"
         THEN /\ out.order[i].state # "finished"
              /\ i = 1 \/ out.order[i - 1].step = "abort"
         ELSE /\ out.order[i].state = "finished"
              /\ i > 1 /\ out.order[i - 1].step # "abort"

\* C27 witness: an abort procedure that notified two requests.
C27_Witness ==
  /\ out.op = "abortTransaction"
  /\ Len(out.order) = 4
  /\ out.order[2].step = "error" /\ out.order[3].step = "error"
  /\ state = "finished"

\* C28: when the operation of a request fails while the transaction is
\* committing, the transaction is aborted with that failure: its error is
\* the failure, the backend abort is called, the state becomes finished
\* and the abort is notified last; the request is not given the failure as
\* its error, and neither a handler nor the cancel flag has any effect.
C28_FailureWhileCommitting ==
  \A r \in 1..Len(requests) :
    (state = "committing" /\ requests[r].opPending) =>
      \A script \in Scripts, prevent \in BOOLEAN :
        LET t == Settle(Tx, r, "throws", script, prevent)
        IN /\ t.txError = "OpError"
           /\ t.state = "finished"
           /\ t.backendCalls = Append(backendCalls, "abort")
           /\ t.events[Len(t.events)] = <<"abort", 0>>
           /\ t.requests[r].error # "OpError"
           /\ t = Settle(Tx, r, "throws", <<>>, TRUE)

\* C28 witness: commit() was called with a request in flight, whose
\* operation then failed.
C28_Witness ==
  /\ commitCause = "explicit"
  /\ commitPc = "waiting"
  /\ state = "finished"
  /\ txError = "OpError"
  /\ events[Len(events)] = <<"abort", 0>>

\* C29: for two keys of the same type compare gives the order of the keys:
\* numbers and dates by value, strings by code unit and binaries by byte
\* with a proper prefix first, arrays element by element with a proper
\* prefix first.
C29_SameTypeOrder ==
  (out.op = "compare" /\ ka.type = kb.type) => out.ab = KeyOrder(ka, kb)

\* The key of a value: none for NaN, an invalid date, a value of no key
\* type, and an array that has an entry without a key or that contains
\* itself; otherwise the key of its type, for an array the keys of its
\* entries in order.  within: the arrays the value lies in.
RECURSIVE KeyOfValue(_, _)
RECURSIVE KeysOfEntries(_, _, _)
KeysOfEntries(items, i, within) ==
  IF i > Len(items) THEN <<>>
  ELSE <<KeyOfValue(items[i], within)>> \o KeysOfEntries(items, i + 1, within)

KeyOfValue(input, within) ==
  CASE input.t = "Number" -> Key("number", input.v)
    [] input.t = "Date" -> Key("date", input.v)
    [] input.t = "String" -> Key("string", input.v)
    [] input.t = "Uint8Array" -> Key("binary", input.v)
    [] input.t = "Array" ->
         IF input.id \in within THEN null
         ELSE LET keys == KeysOfEntries(input.v, 1, within \cup {input.id})
              IN IF \E i \in 1..Len(keys) : keys[i] = null THEN null
                 ELSE Key("array", keys)
    [] OTHER -> null

\* C30: valueToKey gives no key exactly for NaN, an invalid date, a value
\* of no key type, and an array with an entry without a key or containing
\* itself; any other array, one with the same sub-array at two positions
\* included, converts to the array key of its entries' keys in order.
C30_ToKey ==
  (out.op = "valueToKey") => out.key = KeyOfValue(val, {})

\* Whether a key lies in a range, by the order of keys.
InRangeByOrder(range, key) ==
  /\ \/ range.lower = null
     \/ KeyOrder(range.lower, key) = -1
     \/ (KeyOrder(range.lower, key) = 0 /\ ~range.lowerOpen)
  /\ \/ range.upper = null
     \/ KeyOrder(range.upper, key) = 1
     \/ (KeyOrder(range.upper, key) = 0 /\ ~range.upperOpen)

RECURSIVE Reversed(_)
Reversed(q) == IF q = <<>> THEN <<>> ELSE Append(Reversed(Tail(q)), Head(q))

\* The records a cursor has to visit, in the order of its direction.
ToVisit ==
  LET inside == SelectSeq(out.records,
                          LAMBDA k : InRangeByOrder(out.cursor.range, k))
  IN IF out.cursor.direction = "next" THEN inside ELSE Reversed(inside)

\* C22: a store cursor over a range driven by continue() visits the
\* records whose key lies in the range, each once, ascending for next and
\* descending for prev, and reports exhausted after the last of them.
C22_CursorVisitsRange ==
  (out.op = "cursor") =>
    /\ Len(out.seen) <= Len(ToVisit)
    /\ \A i \in 1..Len(out.seen) : out.seen[i] = ToVisit[i]
    /\ out.exhausted => out.seen = ToVisit

\* C24: an open creates an upgrade transaction, of mode versionchange,
\* exactly when the requested version is greater than the stored one;
\* createObjectStore and deleteObjectStore succeed only when the connection
\* has its upgrade transaction and that transaction is active, throw
\* InvalidStateError when the connection has none, which is the case once
\* the upgrade transaction has finished by commit or abort, and throw
\* TransactionInactiveError when it has one that is not active.
C24_UpgradeTransaction ==
  (out.op = "connection") =>
    /\ out.upgraded <=> (out.requested > out.stored)
    /\ out.upgraded => mode = "versionchange"
    /\ ~out.upgraded => out.upgradeTransaction = "null"
    /\ (state = "finished") => out.upgradeTransaction = "null"
    /\ \A i \in 1..Len(out.ddl) :
         LET d == out.ddl[i]
         IN /\ (d.status = "ok") => (d.had = "tx" /\ d.state = "active")
            /\ (d.had = "null") <=> (d.status = "InvalidStateError")
            /\ (d.had = "tx" /\ d.state # "active")
                 <=> (d.status = "TransactionInactiveError")
            /\ d.ended => d.status = "InvalidStateError"

\* C24 witness: the upgradeneeded handler of an open with a greater
\* version committed the upgrade transaction, and a createObjectStore
\* after that was refused with InvalidStateError.
C24_Witness ==
  /\ out.op = "connection"
  /\ out.requested > out.stored
  /\ \E i \in 1..Len(events) : events[i] = <<"complete", 0>>
  /\ Len(out.ddl) = 1
  /\ out.ddl[1].op = "createObjectStore"
  /\ out.ddl[1].status = "InvalidStateError"

\* C23: per database name the open and delete requests go on in the order
\* of their calls: when a request passes the loop and issues its backend
\* call, the processing signal of every earlier request on its name is
\* resolved, and a request with no earlier request on its name, whatever
\* waits on other names, passes the loop within its call.
C23_OpenQueueFifo ==
  (out.op = "factory") =>
    /\ \A i \in 1..Len(out.log) : out.log[i].pending = {}
    /\ \A i, j \in 1..Len(out.log) :
         (i < j /\ out.reqs[out.log[i].req].name = out.reqs[out.log[j].req].name)
           => out.log[i].req < out.log[j].req
    /\ \A n \in DatabaseNames :
         \A i \in 1..Len(out.queue[n]) :
           (i < Len(out.queue[n])) => out.reqs[out.queue[n][i]].processed
    /\ \A r \in 1..Len(out.reqs) :
         (\A q \in 1..(r - 1) : out.reqs[q].name # out.reqs[r].name)
           => out.reqs[r].pc # "await"

\* C23 witness: a request that had to wait for an earlier request on its
\* name has gone on, after a request that was made later on the other name.
C23_Witness ==
  /\ out.op = "factory"
  /\ \E i, j \in 1..Len(out.log) :
       LET r == out.log[i].req
           q == out.log[j].req
       IN /\ out.reqs[r].waited
          /\ out.reqs[q].name # out.reqs[r].name
          /\ j < i
          /\ r < q

\* C31: IDBKeyRange.includes raises DataError exactly when the value has no
\* key, and otherwise returns whether the key of the value is in the range.
C31_Includes ==
  (out.op = "includes") =>
    /\ (out.status = "DataError") <=> (valueToKey(val) = null)
    /\ (out.status = "ok") =>
         (out.result <=> keyInRange(out.range, valueToKey(val)))

\* The integer after x, exactly.
Successor(x) == [x EXCEPT !.lo = @ + 1]

\* The value of current before the i-th call on the generator.
CurrentBefore(i) ==
  IF i = 1 THEN Num(0, 1, 0) ELSE keyGenerator.calls[i - 1].current

\* C32: the generator starts at 1 and issues no key above 2^53; generateKey
\* raises ConstraintError and leaves current alone exactly when current
\* exceeds 2^53; possiblyUpdate with a number k sets current to the integer
\* after floor(min(k, 2^53)) when that floor is not below current, and
\* leaves current alone for a smaller k and for a key that is no number.
C32_GeneratorCeiling ==
  LET calls == keyGenerator.calls
  IN \A i \in 1..Len(calls) :
       LET c == calls[i]
           before == CurrentBefore(i)
           floor == MathFloor(MathMin(c.key.value, Ceiling))
       IN /\ (c.op = "generateKey") =>
               /\ ~NumLess(Ceiling, c.key.value)
               /\ ~NumLess(Ceiling, before)
               /\ c.key.value = before
          /\ (c.op = "ConstraintError") =>
               /\ NumLess(Ceiling, before)
               /\ c.current = before
          /\ (c.op = "possiblyUpdate" /\ c.key.type = "number") =>
               c.current = (IF NumLess(floor, before) THEN before
                            ELSE Successor(floor))
          /\ (c.op = "possiblyUpdate" /\ c.key.type # "number") =>
               c.current = before

\* C33: after a cursor step that found no record the cursor has gotValue
\* false, no value and, on an index, no secondary position, and the request
\* completes with null; after a step that found a record the position and
\* the key are the key of a record under the cursor, gotValue is true, on an
\* index the secondary position is that record's primary key, and the value
\* is that record's value unless the cursor is keyOnly.
C33_CursorStep ==
  (out.op = "cursor") =>
    LET cursor == out.cursor
    IN IF out.found
       THEN /\ cursor.gotValue
            /\ cursor.key = cursor.position
            /\ \E i \in 1..Len(RecordsOfCursor) :
                 LET record == RecordsOfCursor[i]
                 IN /\ record.key = cursor.key
                    /\ cursor.source = "index"
                         => cursor.objectStorePosition = record.value
                    /\ cursor.value =
                         (IF cursor.keyOnly THEN NoKey ELSE record.value)
       ELSE /\ ~cursor.gotValue
            /\ cursor.value = NoKey
            /\ cursor.source = "index" => cursor.objectStorePosition = NoKey
            /\ ~requests[out.request].opPending => out.exhausted

\* C33 witness: an index cursor with values has handed two records to its
\* handler, and the step after them found none and completed with null.
C33_Witness ==
  /\ out.op = "cursor"
  /\ out.cursor.source = "index"
  /\ ~out.cursor.keyOnly
  /\ Len(out.seen) >= 2
  /\ ~out.found
  /\ out.exhausted

\* The cursor after n successive continue() calls without a key, each made
\* when the step before has found a record.
RECURSIVE ContinueTimes(_, _, _)
ContinueTimes(cursor, n, records) ==
  IF n = 0 THEN [cursor |-> cursor, found |-> TRUE]
  ELSE LET it == iterateCursor([cursor EXCEPT !.gotValue = FALSE], NoKey,
                               NoKey, 1, records)
       IN IF it.found THEN ContinueTimes(it.cursor, n - 1, records) ELSE it

\* C34: on a cursor with a value in an active transaction advance(count)
\* with count >= 1 is accepted and leaves the cursor where count successive
\* continue() calls leave it, exhausted when fewer than count records
\* remain; advance(0) raises TypeError and pushes nothing.
C34_AdvanceSteps ==
  (out.op = "cursor" /\ out.found) =>
    \A count \in 0..MaxAdvance :
      LET call == IDBCursor_advance(out.cursor, "active", count,
                                    RecordsOfCursor)
          steps == ContinueTimes(out.cursor, count, RecordsOfCursor)
      IN IF count = 0
         THEN call.status = "TypeError" /\ ~call.pushed
         ELSE /\ call.status = "ok"
              /\ call.pushed
              /\ call.found = steps.found
              /\ call.found =>
                   /\ call.cursor.position = steps.cursor.position
                   /\ call.cursor.key = steps.cursor.key

\* C35: on a cursor whose gotValue is false, in an active read-write
\* transaction, update, delete and continuePrimaryKey raise
\* InvalidStateError and push nothing, while continue and advance are
\* accepted; and every accepted advance, continue and continuePrimaryKey
\* sets the cursor's request back and pushes it.
C35_GotValueGuards ==
  (out.op = "cursor" /\ ~out.cursor.gotValue) =>
    LET cursor == out.cursor
        records == RecordsOfCursor
        refused(call) == call.status = "InvalidStateError" /\ ~call.pushed
        accepted(call) == call.status = "ok" /\ call.pushed
    IN /\ ~cursor.keyOnly =>
            /\ refused(IDBCursor_update(cursor, "active", "readwrite"))
            /\ refused(IDBCursor_delete(cursor, "active", "readwrite"))
       /\ cursor.source = "index" =>
            \A key \in StepKeys, primaryKey \in StepKeys :
              refused(IDBCursor_continuePrimaryKey(cursor, "active", key,
                                                   primaryKey, records))
       /\ accepted(IDBCursor_continue_key(cursor, "active", NoKey, records))
       /\ \A count \in 1..MaxAdvance :
            accepted(IDBCursor_advance(cursor, "active", count, records))

\* C36: on an index cursor with a value, in an active transaction,
\* continuePrimaryKey(key, primaryKey) raises DataError exactly when
\* (key, primaryKey) is not beyond (position, objectStorePosition) in the
\* direction of the cursor, and otherwise pushes a step.
C36_ContinuePrimaryKey ==
  (out.op = "cursor" /\ out.cursor.gotValue /\ out.cursor.source = "index") =>
    \A key \in StepKeys, primaryKey \in StepKeys :
      LET cursor == out.cursor
          call == IDBCursor_continuePrimaryKey(cursor, "active", key,
                                               primaryKey, RecordsOfCursor)
          toward == IF cursor.direction = "next" THEN 1 ELSE -1
          beyond ==
            \/ KeyOrder(key, cursor.position) = toward
            \/ /\ KeyOrder(key, cursor.position) = 0
               /\ KeyOrder(primaryKey, cursor.objectStorePosition) = toward
      IN /\ (call.status = "DataError") <=> ~beyond
         /\ beyond => (call.status = "ok" /\ call.pushed)

\* The positions of the completion notifications, success or error,
\* delivered on request r.
NotificationsOf(r) ==
  {i \in 1..Len(events) : events[i] \in {<<"success", r>>, <<"error", r>>}}

\* C37: a request gets at most one completion notification, a success or
\* an error, and an accepted abort() has delivered an error notification to
\* every request that was pending when it was called.
C37_OneNotification ==
  /\ \A r \in 1..Len(requests) : Cardinality(NotificationsOf(r)) <= 1
  /\ (lastCall.op = "abort" /\ lastCall.status = "ok") =>
       \A r \in InFlightAtAbort : <<"error", r>> \in Range(events)

\* The number of entries of a sequence that equal e.
Occurrences(q, e) == Cardinality({i \in 1..Len(q) : q[i] = e})

\* C38: a transaction delivers at most one terminal notification, complete
\* or abort, issues the backend commit call at most once and the backend
\* abort call at most once, and is Finished once a terminal notification
\* has been delivered.
C38_OneTerminalNotification ==
  /\ Occurrences(events, <<"complete", 0>>)
       + Occurrences(events, <<"abort", 0>>) <= 1
  /\ Occurrences(backendCalls, "commit") <= 1
  /\ Occurrences(backendCalls, "abort") <= 1
  /\ (<<"complete", 0>> \in Range(events) \/ <<"abort", 0>> \in Range(events))
       => state = "finished"

\* C39: of the upgrade transactions started by the opens of one database
\* name at most one is unfinished at any time.
C39_OneUpgradeTransaction ==
  (out.op = "factory") =>
    \A n \in DatabaseNames :
      Cardinality({r \in 1..Len(out.reqs) :
                     /\ out.reqs[r].name = n
                     /\ out.reqs[r].upgradeTransaction = "unfinished"}) <= 1

\* C40: every open or delete request made on the factory eventually passes
\* the queue of its name and completes: done is set and its success or
\* error notification is dispatched.
C40_OpenQueueLiveness ==
  \A r \in 1..MaxOpenRequests :
    (Len(out.reqs) >= r) ~> (Len(out.reqs) >= r /\ out.reqs[r].pc = "done")

====
